---- MODULE Spec2Model ----
(***************************************************************************)
(* Model of byteps/mxnet/__init__.py: the Recorder class (readiness        *)
(* tracker scheduler/end4index, wait_for_trace, save_trace and the         *)
(* collectors it calls) and the two wrappers that own a Recorder.          *)
(*                                                                         *)
(* Environment assumptions (external collaborators of the file): the       *)
(* manifest arg_namesINpara_names.txt and the profiler dump temp.json can  *)
(* be opened when the code opens them; json.dump and nx.write_gml do not   *)
(* fail; Python runs with assertions on.                                   *)
(***************************************************************************)
EXTENDS Integers, Sequences, FiniteSets, TLC

\* ---------------------------------------------------------------- bounds
MaxIndex == 1   \* gradient indexes are 0..MaxIndex
MaxStep  == 4   \* scheduler calls stop advancing step_cnt at this value
MaxCfg   == 2   \* BYTEPS_TRACE_START_STEP ranges over 0..MaxCfg, END over 0..MaxCfg+1

Index == 0..MaxIndex

\* Python's None and a present value, as a set of at most one element
None == {}
Some(x) == {x}
Val(o) == CHOOSE x \in o : TRUE

\* attribute never assigned (Recorder.__init__ returned early)
Unset == -1

VARIABLES
  environ,             \* os.environ, the keys the Recorder reads and writes
  phase,               \* "new", "ready" (a wrapper owns a Recorder), "raised" (__init__ raised)
  _end_trace,           \* Recorder._end_trace
  step_cnt,            \* Recorder.step_cnt
  start_step,          \* Recorder.start_step
  end_step,            \* Recorder.end_step
  idx_dict,            \* Recorder.idx_dict: index -> bool
  gradient_name_list,  \* Recorder.gradient_name_list: None or Some(list of names)
  profiler_state,      \* mxnet profiler: "stop" or "run"
  profiler_dumps,      \* number of profiler.dump() calls
  threads,             \* number of get_traces threads started
  owner,               \* which wrapper built the Recorder: "optimizer" or "trainer"
  call,                \* the last call made on the Recorder, with what it saw and returned
  emit_pending,        \* history: indexes told to emit and not marked since
  told_marked,         \* history: index -> times it was told to emit and then marked
  symbol,              \* Recorder.symbol: None or Some(debug dump of the symbol)
  block,               \* Recorder.block: None or Some(debug dump of its cached graph)
  loss,                \* Recorder.loss: None or Some(list of None / Some(debug dump))
  grad_req,            \* index -> grad_req of the parameter: "write" or "null"
  files,               \* names of the files that exist in trace_dir
  temp_json,           \* traceEvents of temp.json, the profiler dump
  io_json,             \* traceEvents of io.json, once its producer has written it
  comm_json,           \* traceEvents of comm.json, once its producer has written it
  pc,                  \* where the get_traces thread is
  wpc,                 \* inside wait_for_trace: "poll" or "sleep"
  wait_cnt,            \* wait_for_trace: wait_cnt
  wait_log,            \* history of the current wait_for_trace call
  mxnet_traces,        \* save_trace: mxnet_traces["traceEvents"]
  dag,                 \* Recorder.dag
  rst_traces,          \* save_trace: rst_traces["traceEvents"]
  time_dict,           \* Recorder.time_dict: None or Some(traceEvents)
  trace_file,          \* what was written to trace_path: None or Some(traceEvents)
  dag_gml,             \* what was written to dag.gml: None or Some(graph)
  loss_dag,            \* Recorder.loss_dag: None or Some(list of None / Some(graph))
  error                \* the exception that ended the thread: None or Some(record)

vars == <<environ, phase, _end_trace, step_cnt, start_step, end_step, idx_dict,
          gradient_name_list, profiler_state, profiler_dumps, threads, owner, call,
          emit_pending, told_marked, symbol, block, loss, grad_req, files, temp_json,
          io_json, comm_json, pc, wpc, wait_cnt, wait_log, mxnet_traces, dag,
          rst_traces, time_dict, trace_file, dag_gml, loss_dag, error>>

\* the state of the get_traces thread and of the files it reads and writes
thread_vars == <<files, pc, wpc, wait_cnt, wait_log, mxnet_traces, dag,
                 rst_traces, time_dict, trace_file, dag_gml, loss_dag, error>>

\* what the wrappers and the producers supply
input_vars == <<symbol, block, loss, grad_req, temp_json, io_json, comm_json>>

\* the Recorder's tracker fields and the history of calls
tracker_vars == <<environ, phase, _end_trace, step_cnt, start_step, end_step,
                  idx_dict, gradient_name_list, profiler_state, profiler_dumps,
                  threads, owner, call, emit_pending, told_marked>>

\* the manifest arg_namesINpara_names.txt: one name per line, index = line number
ParamTable == <<"w0", "w1", "w2", "w3", "w4", "w5">>
ManifestLines == [i \in 1..(MaxIndex + 1) |-> <<ParamTable[i]>>]

\* DistributedTrainer: list(params), the parameter names in index order
ParamNames == [i \in 1..(MaxIndex + 1) |-> <<ParamTable[i]>>]

NoCall == [op |-> "none", index |-> 0, check_stop |-> FALSE, ret |-> "None",
           pre_step_cnt |-> 0, pre_end_trace |-> FALSE, pre_marked |-> FALSE]

\* ------------------------------------------------------- Recorder.__init__
\* line 72: tracing is on only when BYTEPS_TRACE_ON is '1'
TraceOn(env) == env.BYTEPS_TRACE_ON

\* line 98
StartTooSmall_any(start) == start < 0
StartTooSmall(start) == start < 1

\* line 100
EndNotAfterStart(start, end) == end <= start

\* Recorder.__init__: "ok" or the ValueError it raises
InitOutcome(env) ==
  IF ~TraceOn(env) THEN "ok"
  ELSE IF StartTooSmall(env.BYTEPS_TRACE_START_STEP) THEN "ValueError(START_STEP)"
  ELSE IF EndNotAfterStart(env.BYTEPS_TRACE_START_STEP, env.BYTEPS_TRACE_END_STEP)
       THEN "ValueError(END_STEP)"
  ELSE "ok"

\* Recorder.__init__ (lines 63-111) as called by wrapper who, then the
\* wrapper's own outcome wrapper_err ("ok" or what it raises after Recorder())
RecorderInit(who, wrapper_err) ==
  LET outcome == IF InitOutcome(environ) # "ok" THEN InitOutcome(environ)
                 ELSE wrapper_err
  IN
  /\ phase = "new"
  /\ owner' = who
  /\ time_dict' = Some(<< >>)
  /\ idx_dict' = << >>
  /\ step_cnt' = 0
  /\ _end_trace' = ~TraceOn(environ)
  /\ start_step' = IF TraceOn(environ) THEN environ.BYTEPS_TRACE_START_STEP ELSE Unset
  /\ end_step' = IF TraceOn(environ) THEN environ.BYTEPS_TRACE_END_STEP ELSE Unset
  /\ files' = IF TraceOn(environ) THEN files \ {"comm.json", "io.json"} ELSE files
  /\ phase' = IF outcome = "ok" THEN "ready" ELSE "raised"
  /\ profiler_state' = IF /\ TraceOn(environ)
                          /\ InitOutcome(environ) = "ok"
                          /\ 0 = environ.BYTEPS_TRACE_START_STEP - 1
                       THEN "run" ELSE profiler_state
  /\ gradient_name_list' = IF who = "trainer" /\ InitOutcome(environ) = "ok"
                           THEN Some(ParamNames) ELSE None
  /\ call' = [NoCall EXCEPT !.op = "__init__",
                            !.ret = IF outcome = "ok" THEN "None" ELSE outcome]
  /\ UNCHANGED <<environ, profiler_dumps, threads, emit_pending, told_marked>>
  /\ loss_dag' = IF TraceOn(environ) /\ InitOutcome(environ) = "ok"
                 THEN Some(<< >>) ELSE loss_dag
  /\ UNCHANGED <<input_vars, pc, wpc, wait_cnt, wait_log, mxnet_traces, dag,
                 rst_traces, trace_file, dag_gml, error>>

\* DistributedOptimizer.__init__ (lines 506-511): the recorder's symbol is
\* the sym argument, which may be None
DistributedOptimizerInit ==
  /\ block = None /\ loss = None
  /\ RecorderInit("optimizer", "ok")

\* DistributedTrainer.__init__ (lines 655-677): block and the loss keyword
DistributedTrainerInit ==
  /\ symbol = None
  /\ RecorderInit("trainer", IF block = None THEN "ValueError(block)" ELSE "ok")

\* ------------------------------------------------------ Recorder.scheduler
\* line 132
TraceEnded_never(flag) == FALSE
TraceEnded(flag) == flag

\* lines 134-135
Register_reset(d, index) == (index :> FALSE) @@ d
Register(d, index) == IF index \in DOMAIN d THEN d ELSE d @@ (index :> FALSE)

\* line 142
AlreadyRead_never(d, index) == FALSE
AlreadyRead(d, index) == d[index]

\* line 143
AllRecorded_some(d) == \E k \in DOMAIN d : d[k]
AllRecorded(d) == FALSE \notin {d[k] : k \in DOMAIN d}


\* lines 159-160
AdvanceStep_always(cnt, check_stop) == cnt + 1
AdvanceStep(cnt, check_stop) == IF check_stop THEN cnt + 1 ELSE cnt

\* line 165
ReachedEnd_early(cnt, end) == cnt >= end - 1
ReachedEnd_late(cnt, end) == cnt > end
ReachedEnd(cnt, end) == cnt >= end

Scheduler(index, check_stop) ==
  /\ phase = "ready"
  /\ LET seen == [op |-> "scheduler", index |-> index, check_stop |-> check_stop,
                  ret |-> "False", pre_step_cnt |-> step_cnt,
                  pre_end_trace |-> _end_trace,
                  pre_marked |-> (index \in DOMAIN idx_dict /\ idx_dict[index])]
         d1 == Register(idx_dict, index)
         cnt1 == AdvanceStep(step_cnt, check_stop)
     IN
     IF TraceEnded(_end_trace)
     THEN \* lines 132-133
          /\ call' = seen
          /\ UNCHANGED <<environ, phase, _end_trace, step_cnt, start_step, end_step,
                         idx_dict, gradient_name_list, profiler_state,
                         profiler_dumps, threads, owner, emit_pending, told_marked>>
          /\ UNCHANGED <<input_vars, thread_vars>>
     ELSE IF AlreadyRead(d1, index)
     THEN \* lines 142-154
          /\ idx_dict' = d1
          /\ IF AllRecorded(d1)
             THEN /\ _end_trace' = TRUE
                  /\ environ' = [environ EXCEPT !.BYTEPS_TRACE_STATUS = "END"]
                  /\ profiler_state' = "stop"
                  /\ profiler_dumps' = profiler_dumps + 1
                  /\ threads' = threads + 1
                  /\ pc' = "get_traces"
             ELSE UNCHANGED <<_end_trace, environ, profiler_state, profiler_dumps,
                              threads, pc>>
          /\ call' = seen
          /\ UNCHANGED <<phase, step_cnt, start_step, end_step, gradient_name_list,
                         owner, emit_pending, told_marked>>
          /\ UNCHANGED <<input_vars, files, wpc, wait_cnt, wait_log, mxnet_traces,
                         dag, rst_traces, time_dict, trace_file, dag_gml, loss_dag, error>>
     ELSE \* lines 159-174
          /\ check_stop => step_cnt < MaxStep
          /\ idx_dict' = d1
          /\ step_cnt' = cnt1
          /\ profiler_state' = IF cnt1 = start_step - 1 THEN "run" ELSE profiler_state
          /\ IF ReachedEnd(cnt1, end_step)
             THEN /\ gradient_name_list' = IF gradient_name_list = None
                                           THEN Some(ManifestLines)
                                           ELSE gradient_name_list
                  /\ call' = [seen EXCEPT !.ret = "True"]
                  /\ emit_pending' = emit_pending \cup {index}
             ELSE /\ UNCHANGED <<gradient_name_list, emit_pending>>
                  /\ call' = seen
          /\ UNCHANGED <<environ, phase, _end_trace, start_step, end_step,
                         profiler_dumps, threads, owner, told_marked>>
          /\ UNCHANGED <<input_vars, thread_vars>>

\* ------------------------------------------------------ Recorder.end4index
\* line 502
MarkRead(d, index) == (index :> TRUE) @@ d

End4Index(index) ==
  /\ phase = "ready"
  /\ call' = [op |-> "end4index", index |-> index, check_stop |-> FALSE, ret |-> "None",
              pre_step_cnt |-> step_cnt, pre_end_trace |-> _end_trace,
              pre_marked |-> (index \in DOMAIN idx_dict /\ idx_dict[index])]
  /\ idx_dict' = IF _end_trace THEN idx_dict ELSE MarkRead(idx_dict, index)
  /\ IF ~_end_trace /\ index \in emit_pending
     THEN /\ emit_pending' = emit_pending \ {index}
          /\ told_marked' = [told_marked EXCEPT ![index] = @ + 1]
     ELSE UNCHANGED <<emit_pending, told_marked>>
  /\ UNCHANGED <<environ, phase, _end_trace, step_cnt, start_step, end_step,
                 gradient_name_list, profiler_state, profiler_dumps, threads, owner>>
  /\ UNCHANGED <<input_vars, thread_vars>>

\* ------------------------------------------------ strings as token lists
\* A Python string is a sequence of tokens; a token is a marker the code
\* searches for ("_fwd", "_backward", "name=", ";", "FW.", ...) or a piece of
\* text that holds none of them.

\* tok in s
Contains(s, tok) == \E i \in 1..Len(s) : s[i] = tok

FirstAt(s, tok) ==
  CHOOSE i \in 1..Len(s) : s[i] = tok /\ \A j \in 1..(i - 1) : s[j] # tok

\* s.split(tok)[0]
SplitFirst(s, tok) ==
  IF Contains(s, tok) THEN SubSeq(s, 1, FirstAt(s, tok) - 1) ELSE s

\* s.split(tok)[1], for s that holds tok
SplitSecond(s, tok) ==
  SplitFirst(SubSeq(s, FirstAt(s, tok) + 1, Len(s)), tok)

\* x.split("_fwd")[0] if "_fwd" in x else x
StripFwd(x) == IF Contains(x, "_fwd") THEN SplitFirst(x, "_fwd") ELSE x

Digits == <<"0", "1", "2", "3", "4", "5", "6", "7", "8", "9">>

\* "%d" % k
FormatInt(k) == Digits[k + 1]

\* int(tok)
ParseInt(tok) == CHOOSE k \in 0..9 : Digits[k + 1] = tok

\* sub in s, for a marker of several tokens
ContainsSub(s, sub) ==
  \E i \in 1..(Len(s) - Len(sub) + 1) : SubSeq(s, i, i + Len(sub) - 1) = sub

\* s.split(tok)[-1]
LastPiece(s, tok) ==
  IF ~Contains(s, tok) THEN s
  ELSE LET last == CHOOSE i \in 1..Len(s) :
                     s[i] = tok /\ \A j \in (i + 1)..Len(s) : s[j] # tok
       IN SubSeq(s, last + 1, Len(s))

\* a call's outcome: its value, or the exception it raised
Ok(v) == [err |-> "", val |-> v]
Raise(e) == [err |-> e, val |-> << >>]

InSeq(s, x) == \E i \in 1..Len(s) : s[i] = x

\* Python computes an argument before the call. TLC computes an operator's
\* argument where the operator uses it, and under ENABLED at every use, so a
\* loop that hands its graph on would rebuild the graph at each use of it.
\* Only({e : g \in {G}}) computes G once and gives e the value.
Only(S) == CHOOSE x \in S : TRUE

\* -------------------------------------------------------------- nx.DiGraph
\* nodes and edges in insertion order (networkx keeps dicts), op: the node
\* attribute set by add_node(..., op=op)
EmptyDag == [nodes |-> << >>, edges |-> << >>, op |-> << >>]

add_node_plain(G, n) ==
  Only({
    IF InSeq(g.nodes, n) THEN g ELSE [g EXCEPT !.nodes = Append(@, n)]
    : g \in {G}})

add_node(g, n, op) ==
  [add_node_plain(g, n) EXCEPT !.op = (n :> op) @@ @]

add_edge(G, u, v) ==
  Only({
    LET g2 == add_node_plain(add_node_plain(g, u), v)
    IN IF InSeq(g2.edges, <<u, v>>) THEN g2
       ELSE [g2 EXCEPT !.edges = Append(@, <<u, v>>)]
    : g \in {G}})

\* [u for u, _ in g.in_edges(n)]
Predecessors_out(g, n) ==
  LET hits == SelectSeq(g.edges, LAMBDA e : e[1] = n)
  IN [i \in 1..Len(hits) |-> hits[i][2]]
Predecessors(g, n) ==
  LET hits == SelectSeq(g.edges, LAMBDA e : e[2] = n)
  IN [i \in 1..Len(hits) |-> hits[i][1]]

\* list(g.successors(n))
Successors(g, n) ==
  LET hits == SelectSeq(g.edges, LAMBDA e : e[1] = n)
  IN [i \in 1..Len(hits) |-> hits[i][2]]

RECURSIVE EdgesFrom(_, _)
\* g.edges(): by source node in node order, then by insertion
EdgesFrom(g, i) ==
  IF i > Len(g.nodes) THEN << >>
  ELSE SelectSeq(g.edges, LAMBDA e : e[1] = g.nodes[i]) \o EdgesFrom(g, i + 1)

Edges(g) == EdgesFrom(g, 1)

FW(name) == <<"FW.">> \o name
BW(name) == <<"BW.">> \o name
Comm(name) == <<"Comm.">> \o name
IONode == <<"I/O">>
StepNode == <<"STEP">>
OutputNode(k) == <<"OUTPUT", FormatInt(k)>>

\* --------------------------------------------------------- Recorder.gen_dag
\* The debug dump is a sequence of blocks (the text between delimiter lines),
\* a block a sequence of lines, a line a record:
\*   kind "head"     Op:<op>, Name=<name>
\*   kind "arg"      arg[n]=<name>(...)
\*   kind "output"   output[k]=<name>(...)
\*   kind "Variable" Variable:<name>
\*   kind "text"     any other line
Line(kind, name, op) == [kind |-> kind, name |-> name, op |-> op]

RECURSIVE GenOutputs_samecnt(_, _, _, _)
RECURSIVE GenOutputs(_, _, _, _)
\* lines 412-422: the loop over the lines of the first block
GenOutputs_samecnt(G, first_ls, i, output_cnt) ==
  Only({
    IF i > Len(first_ls) THEN g
    ELSE IF first_ls[i].kind = "Variable" THEN g
    ELSE IF first_ls[i].kind = "output"
         THEN LET output_node == StripFwd(first_ls[i].name)
                  g1 == add_edge(g, FW(output_node), OutputNode(output_cnt))
                  g2 == add_edge(g1, OutputNode(output_cnt), BW(output_node))
              IN GenOutputs_samecnt(g2, first_ls, i + 1, output_cnt)
         ELSE GenOutputs_samecnt(g, first_ls, i + 1, output_cnt)
    : g \in {G}})
GenOutputs(G, first_ls, i, output_cnt) ==
  Only({
    IF i > Len(first_ls) THEN g
    ELSE IF first_ls[i].kind = "Variable" THEN g
    ELSE IF first_ls[i].kind = "output"
         THEN LET output_node == StripFwd(first_ls[i].name)
                  g1 == add_edge(g, FW(output_node), OutputNode(output_cnt))
                  g2 == add_edge(g1, OutputNode(output_cnt), BW(output_node))
              IN GenOutputs(g2, first_ls, i + 1, output_cnt + 1)
         ELSE GenOutputs(g, first_ls, i + 1, output_cnt)
    : g \in {G}})

\* lines 426-430
BlockVars(prev_ls) ==
  LET hits == SelectSeq(prev_ls, LAMBDA l : l.kind = "Variable")
  IN [i \in 1..Len(hits) |-> hits[i].name]

\* lines 437-442
BlockArgs(ls, var) ==
  LET hits == SelectSeq(ls, LAMBDA l : l.kind = "arg" /\ ~InSeq(var, l.name))
  IN [i \in 1..Len(hits) |-> hits[i].name]

RECURSIVE GenArgEdges_fwonly(_, _, _, _)
RECURSIVE GenArgEdges(_, _, _, _)
\* lines 449-453
GenArgEdges_fwonly(G, name, args, i) ==
  Only({
    IF i > Len(args) THEN g
    ELSE GenArgEdges_fwonly(add_edge(g, FW(StripFwd(args[i])), FW(name)), name, args, i + 1)
    : g \in {G}})
GenArgEdges(G, name, args, i) ==
  Only({
    IF i > Len(args) THEN g
    ELSE LET innode == StripFwd(args[i])
             g1 == add_edge(g, FW(innode), FW(name))
             g2 == add_edge(g1, BW(name), BW(innode))
         IN GenArgEdges(g2, name, args, i + 1)
    : g \in {G}})

\* line 457
StepEdges_always(_main) == TRUE
StepEdges(_main) == _main

RECURSIVE GenVarEdges(_, _, _, _, _)
\* lines 454-464
GenVarEdges(G, name, var, i, _main) ==
  Only({
    IF i > Len(var) THEN g
    ELSE IF Contains(var[i], "data")
         THEN LET g1 == add_edge(g, IONode, FW(name))
                  g2 == IF StepEdges(_main)
                        THEN add_edge(add_edge(g1, BW(name), StepNode), StepNode, FW(name))
                        ELSE g1
              IN GenVarEdges(g2, name, var, i + 1, _main)
         ELSE LET g1 == add_edge(g, Comm(var[i]), StepNode)
                  g2 == add_edge(g1, BW(name), Comm(var[i]))
              IN GenVarEdges(g2, name, var, i + 1, _main)
    : g \in {G}})

RECURSIVE GenBlocks(_, _, _, _)
\* lines 424-464: the loop over blocks[1:], i is the Python index plus one
GenBlocks(G, blocks, i, _main) ==
  Only({
    IF i > Len(blocks) THEN g
    ELSE LET var == BlockVars(blocks[i - 1])
             ls == blocks[i]
         IN IF ls = << >> \/ ls[1].kind # "head"
            THEN GenBlocks(g, blocks, i + 1, _main)
            ELSE LET name == StripFwd(ls[1].name)
                     args == BlockArgs(ls, var)
                     g1 == add_node(add_node(g, FW(name), ls[1].op), BW(name), ls[1].op)
                     g2 == GenArgEdges(g1, name, args, 1)
                     g3 == GenVarEdges(g2, name, var, 1, _main)
                 IN GenBlocks(g3, blocks, i + 1, _main)
    : g \in {G}})

gen_dag(blocks, _main) ==
  GenBlocks(GenOutputs(EmptyDag, blocks[1], 1, 0), blocks, 2, _main)

\* ------------------------------------------------ Recorder.combine_loss_dag
RECURSIVE CombineEdges(_, _, _, _, _, _)
\* lines 474-483: the loop over the edges of one loss graph
CombineEdges(G, es, i, output_name, output_node, first_bw_node) ==
  Only({
    IF i > Len(es) THEN Ok(g)
    ELSE LET u == es[i][1]
             v == es[i][2]
         IN IF Contains(u, "I/O")
            THEN IF ~Contains(v, "FW.") THEN [err |-> "IndexError", val |-> g]
                 ELSE LET g1 == add_edge(g, output_node, v)
                          g2 == add_edge(g1, BW(SplitSecond(v, "FW.")), first_bw_node)
                      IN CombineEdges(g2, es, i + 1, output_name, output_node, first_bw_node)
            ELSE IF Contains(u, "OUTPUT")
            THEN CombineEdges(add_edge(g, output_name, v), es, i + 1,
                              output_name, output_node, first_bw_node)
            ELSE IF Contains(v, "OUTPUT")
            THEN CombineEdges(add_edge(g, u, output_name), es, i + 1,
                              output_name, output_node, first_bw_node)
            ELSE CombineEdges(add_edge(g, u, v), es, i + 1,
                              output_name, output_node, first_bw_node)
    : g \in {G}})

RECURSIVE CombineLoss(_, _, _)
\* lines 468-483: the loop over self.loss_dag, idx is the Python index
CombineLoss(G, lds, idx) ==
  Only({
    IF idx >= Len(lds) THEN Ok(g)
    ELSE IF lds[idx + 1] = None THEN CombineLoss(g, lds, idx + 1)
    ELSE LET ld == Val(lds[idx + 1])
             output_name == OutputNode(idx)
         IN IF Predecessors(g, output_name) = << >>
            THEN [err |-> "IndexError", val |-> g]
            ELSE IF Successors(g, output_name) = << >>
            THEN [err |-> "IndexError", val |-> g]
            ELSE LET r == CombineEdges(g, Edges(ld), 1, output_name,
                                       Predecessors(g, output_name)[1],
                                       Successors(g, output_name)[1])
                 IN IF r.err # "" THEN r ELSE CombineLoss(r.val, lds, idx + 1)
    : g \in {G}})

combine_loss_dag_skip(g, lds) == Ok(g)
combine_loss_dag(g, lds) == CombineLoss(g, lds, 0)

\* ------------------------------------- Recorder.byteps_collect_computation
\* A trace event. A raw event of the profiler has no "dur" and no "args"
\* before pairing; the record keeps the fields with dur 0 and empty args.
\* has_ts: the event has a "ts" key.
NoArgs == [name |-> << >>, inputs |-> << >>]

Event(name, ts, ph, pid, cat) ==
  [name |-> name, ts |-> ts, dur |-> 0, ph |-> ph, pid |-> pid, cat |-> cat,
   args |-> NoArgs, has_ts |-> TRUE]

\* line 290: assert trace["name"] == next_trace["name"]
SameName_any(trace, next_trace) == TRUE
SameName(trace, next_trace) == trace.name = next_trace.name

\* line 291
PairDur_end(trace, next_trace) == next_trace.ts
PairDur(trace, next_trace) == next_trace.ts - trace.ts

RECURSIVE Pairing(_, _, _)
\* lines 281-296, index is the Python index plus one
Pairing(events, index, traces) ==
  IF index > Len(events) THEN Ok(traces)
  ELSE IF ~events[index].has_ts THEN Pairing(events, index + 1, traces)
  ELSE IF events[index].ph \in {"B", "b"}
       THEN IF index + 1 > Len(events) THEN Raise("IndexError")
            ELSE IF ~SameName(events[index], events[index + 1])
                 THEN Raise("AssertionError")
            ELSE IF ~events[index + 1].has_ts THEN Raise("KeyError")
            ELSE Pairing(events, index + 2,
                         Append(traces,
                                [events[index] EXCEPT
                                   !.dur = PairDur(events[index], events[index + 1]),
                                   !.ph = "X"]))
       ELSE Pairing(events, index + 1, traces)

RECURSIVE InsertByTs(_, _)
\* insert x after the elements whose ts is not greater (stable)
InsertByTs(lst, x) ==
  Only({
    IF sorted = << >> THEN <<x>>
    ELSE IF Head(sorted).ts <= x.ts THEN <<Head(sorted)>> \o InsertByTs(Tail(sorted), x)
    ELSE <<x>> \o sorted
    : sorted \in {lst}})

RECURSIVE SortFrom(_, _, _)
SortFrom(traces, i, done) ==
  Only({
    IF i > Len(traces) THEN acc ELSE SortFrom(traces, i + 1, InsertByTs(acc, traces[i]))
    : acc \in {done}})

\* line 298: sorted(traces, key=lambda x: x["ts"])
SortByTs_not(traces) == traces
SortByTs(traces) == SortFrom(traces, 1, << >>)

\* lines 300-308
_preprocess(_name) ==
  LET n1 == IF Contains(_name, "name=")
            THEN SplitFirst(SplitSecond(_name, "name="), ";")
            ELSE _name
      n2 == IF Contains(n1, "_backward")
            THEN <<"BW.">> \o SplitFirst(n1, "_backward")
            ELSE <<"FW.">> \o n1
  IN IF Contains(n2, "_fwd") THEN SplitFirst(n2, "_fwd") ELSE n2

\* lines 310-313
IGNORE_OP == {<<"DeleteVariable">>, <<"sum">>, <<"_plus_scalar">>,
              <<"_copyto_GPU2GPU">>, <<"broadcast_add">>, <<"Reshape">>,
              <<"Cast">>, <<"_arange">>, <<"elemwise_add">>, <<"_ones">>,
              <<"SyncCopyGPU2CPU">>, <<"_mul_scalar">>}

\* "FW" in name, "BW" in name
HasFW_never(name) == FALSE
HasFW(name) == Contains(name, "FW.") \/ Contains(name, "FW")
HasBW(name) == Contains(name, "BW.") \/ Contains(name, "BW")

RECURSIVE LastBwWalk(_, _, _, _, _)
\* lines 316-334: the walk, _index is the Python index plus one
LastBwWalk(traces, g, _index, statue, tmp) ==
  IF _index > Len(traces) THEN None
  ELSE LET name == _preprocess(traces[_index].name)
       IN IF ~InSeq(g.nodes, name) THEN LastBwWalk(traces, g, _index + 1, statue, tmp)
          ELSE IF statue = "init" /\ HasFW(name)
               THEN LastBwWalk(traces, g, _index + 1, "fw", tmp)
          ELSE IF statue = "fw" /\ HasBW(name)
               THEN LastBwWalk(traces, g, _index + 1, "bw", Some(name))
          ELSE IF statue = "bw" /\ HasBW(name)
               THEN LastBwWalk(traces, g, _index + 1, "bw", Some(name))
          ELSE IF statue = "bw" /\ HasFW(name)
               THEN tmp
          ELSE LastBwWalk(traces, g, _index + 1, statue, tmp)

real_last_bw_name(traces, g) == LastBwWalk(traces, g, 1, "init", None)

\* lines 373-375: the scan ends at an event that is a node of the graph
ScanStops_never(g, _trace) == FALSE
ScanStops(g, _trace) == InSeq(g.nodes, _preprocess(_trace.name))

RECURSIVE StepScan(_, _, _, _, _, _)
\* lines 368-382: the inner scan; gives the index it stops at and the STEP span
StepScan(traces, g, index, pid, _step_ts, _step_dur) ==
  IF index > Len(traces)
  THEN [index |-> index, _step_ts |-> _step_ts, _step_dur |-> _step_dur]
  ELSE LET _trace == traces[index]
       IN IF pid # _trace.pid
          THEN StepScan(traces, g, index + 1, pid, _step_ts, _step_dur)
          ELSE IF ScanStops(g, _trace)
               THEN [index |-> index, _step_ts |-> _step_ts, _step_dur |-> _step_dur]
          ELSE IF _trace.name \in IGNORE_OP \/ "operator" # _trace.cat
               THEN StepScan(traces, g, index + 1, pid, _step_ts, _step_dur)
          ELSE LET ts1 == IF _step_ts = None THEN Some(_trace.ts) ELSE _step_ts
               IN StepScan(traces, g, index + 1, pid, ts1,
                           _trace.ts + _trace.dur - Val(ts1))

\* lines 384-394
StepEvent_zero(_step_ts, _step_dur, pid) ==
  [name |-> StepNode, ts |-> _step_ts, dur |-> 0, ph |-> "X",
   cat |-> "operator", pid |-> pid,
   args |-> [name |-> StepNode, inputs |-> << >>], has_ts |-> TRUE]
StepEvent(_step_ts, _step_dur, pid) ==
  [name |-> StepNode, ts |-> _step_ts, dur |-> _step_dur, ph |-> "X",
   cat |-> "operator", pid |-> pid,
   args |-> [name |-> StepNode, inputs |-> << >>], has_ts |-> TRUE]

\* lines 350-353: the event is of another process id than the one chosen
OtherPid_never(pid, trace) == FALSE
OtherPid(pid, trace) == pid # None /\ Val(pid) # trace.pid

RECURSIVE CollectLoop(_, _, _, _, _, _)
\* lines 337-394: the main loop, index is the Python index plus one
CollectLoop(traces, g, _real_last_bw_name, index, pid, rst) ==
  IF index > Len(traces) THEN rst
  ELSE LET trace == traces[index]
           name == _preprocess(trace.name)
       IN IF ~InSeq(g.nodes, name)
          THEN CollectLoop(traces, g, _real_last_bw_name, index + 1, pid, rst)
          ELSE IF OtherPid(pid, trace)
          THEN CollectLoop(traces, g, _real_last_bw_name, index + 1, pid, rst)
          ELSE LET pid1 == Some(trace.pid)
                   ev == [trace EXCEPT
                            !.name = name,
                            !.args = [name |-> name, inputs |-> Predecessors(g, name)]]
                   rst1 == Append(rst, ev)
               IN IF Some(name) = _real_last_bw_name
                  THEN LET scan == StepScan(traces, g, index + 1, trace.pid, None, 0)
                           rst2 == IF scan._step_ts # None
                                   THEN Append(rst1, StepEvent(Val(scan._step_ts),
                                                               scan._step_dur, trace.pid))
                                   ELSE rst1
                       IN CollectLoop(traces, g, _real_last_bw_name, scan.index, pid1, rst2)
                  ELSE CollectLoop(traces, g, _real_last_bw_name, index + 1, pid1, rst1)

\* the events of rst_traces["traceEvents"], or the exception raised
byteps_collect_computation(events, g) ==
  LET paired == Pairing(events, 1, << >>)
  IN IF paired.err # "" THEN paired
     ELSE Only({
            Ok(CollectLoop(traces, g, real_last_bw_name(traces, g), 1, None, << >>))
            : traces \in {SortByTs(paired.val)}})

\* -------------------------------------------- Recorder.byteps_collect_comm
\* line 222
OnePredecessor_any(input_nodes) == Len(input_nodes) >= 1
OnePredecessor(input_nodes) == Len(input_nodes) = 1

GradientMarker == <<"byteps", ".", "gradient", "_">>

RECURSIVE CommLoop(_, _, _, _, _)
\* lines 208-224: the loop over the events of comm.json
CommLoop(comm, i, names, g, acc) ==
  IF i > Len(comm) THEN Ok(acc)
  ELSE LET trace == comm[i]
       IN IF ~ContainsSub(trace.args.name, GradientMarker)
          THEN CommLoop(comm, i + 1, names, g, acc)
          ELSE LET para_index == ParseInt(LastPiece(trace.args.name, "_")[1])
               IN IF names = None THEN [err |-> "TypeError", val |-> acc]
                  ELSE IF para_index >= Len(Val(names))
                       THEN [err |-> "IndexError", val |-> acc]
                  ELSE LET para_name == Val(names)[para_index + 1]
                           node == Comm(para_name)
                           input_nodes == Predecessors(g, node)
                           name1 == IF trace.name # trace.args.name
                                    THEN node \o <<".">> \o LastPiece(trace.name, ".")
                                    ELSE node
                       IN IF ~OnePredecessor(input_nodes)
                          THEN [err |-> "AssertionError", val |-> acc]
                          ELSE CommLoop(comm, i + 1, names, g,
                                 Append(acc,
                                   [trace EXCEPT
                                      !.name = name1,
                                      !.pid = node,
                                      !.args = [name |-> node,
                                                inputs |-> <<input_nodes[1]>>]]))

\* ------------------------------------------------ Recorder.wait_for_trace
\* lines 180-181, in tenths of a second
WAIT_TIME_OUT == 100
WAIT_TIME == 1

\* line 188
TimedOut_never(cnt) == FALSE
TimedOut_at(cnt) == cnt * WAIT_TIME >= WAIT_TIME_OUT
TimedOut(cnt) == cnt * WAIT_TIME > WAIT_TIME_OUT

\* io_ready (lines 194-195) and comm_ready (lines 203-204)
FileOf(name) == IF name = "I/O" THEN "io.json" ELSE "comm.json"
ready(name) == FileOf(name) \in files

\* line 184
PollSaysReady(name) == ready(name)

\* line 190: the label in the message of the ValueError
TimeoutLabel(name) == name

NoWait == [name |-> "", polls |-> 0, hits |-> 0, outcome |-> "none"]

\* lines 180-182: wait_for_trace is entered
EnterWait(name) ==
  /\ wpc' = "poll"
  /\ wait_cnt' = 0
  /\ wait_log' = [name |-> name, polls |-> 0, hits |-> 0, outcome |-> "waiting"]

WaitStage(name) == IF name = "I/O" THEN "io_wait" ELSE "comm_wait"
ReadStage(name) == IF name = "I/O" THEN "io_read" ELSE "comm_read"

\* lines 184-185 and 191: one poll of ready()
WaitPoll(name) ==
  /\ pc = WaitStage(name) /\ wpc = "poll"
  /\ IF PollSaysReady(name)
     THEN /\ pc' = ReadStage(name)
          /\ wpc' = "none"
          /\ wait_log' = [wait_log EXCEPT !.polls = @ + 1,
                                          !.hits = @ + (IF ready(name) THEN 1 ELSE 0),
                                          !.outcome = "returned"]
     ELSE /\ pc' = pc
          /\ wpc' = "sleep"
          /\ wait_log' = [wait_log EXCEPT !.polls = @ + 1]
  /\ UNCHANGED <<tracker_vars, input_vars, files, wait_cnt, mxnet_traces, dag,
                 rst_traces, time_dict, trace_file, dag_gml, loss_dag, error>>

\* lines 186-190: the sleep, the count and the timeout test
WaitSleep(name) ==
  /\ pc = WaitStage(name) /\ wpc = "sleep"
  /\ wait_cnt' = wait_cnt + 1
  /\ IF TimedOut(wait_cnt + 1)
     THEN /\ pc' = "raised"
          /\ wpc' = "none"
          /\ error' = Some([type |-> "ValueError", what |-> "Waiting Time Out",
                            name |-> TimeoutLabel(name),
                            waited |-> (wait_cnt + 1) * WAIT_TIME])
          /\ wait_log' = [wait_log EXCEPT !.outcome = "raised"]
     ELSE /\ pc' = pc
          /\ wpc' = "poll"
          /\ UNCHANGED <<error, wait_log>>
  /\ UNCHANGED <<tracker_vars, input_vars, files, mxnet_traces, dag,
                 rst_traces, time_dict, trace_file, dag_gml, loss_dag>>

\* the I/O recorder and the communication core, other processes, write
\* their trace file
IoProducerWrites(events) ==
  /\ phase = "ready"
  /\ "io.json" \notin files
  /\ files' = files \cup {"io.json"}
  /\ io_json' = events
  /\ UNCHANGED <<tracker_vars, symbol, block, loss, grad_req, temp_json, comm_json, pc, wpc,
                 wait_cnt, wait_log, mxnet_traces, dag, rst_traces, time_dict,
                 trace_file, dag_gml, loss_dag, error>>

CommProducerWrites(events) ==
  /\ phase = "ready"
  /\ "comm.json" \notin files
  /\ files' = files \cup {"comm.json"}
  /\ comm_json' = events
  /\ UNCHANGED <<tracker_vars, symbol, block, loss, grad_req, temp_json, io_json, pc, wpc,
                 wait_cnt, wait_log, mxnet_traces, dag, rst_traces, time_dict,
                 trace_file, dag_gml, loss_dag, error>>

\* ------------------------------------- the get_traces thread, save_trace
Raised(type) ==
  /\ pc' = "raised"
  /\ error' = Some([type |-> type, what |-> "", name |-> "", waited |-> 0])

\* lines 137-140: time.sleep(5), then save_trace is called
GetTraces ==
  /\ pc = "get_traces"
  /\ pc' = "save_trace"
  /\ UNCHANGED <<tracker_vars, input_vars, files, wpc, wait_cnt, wait_log,
                 mxnet_traces, dag, rst_traces, time_dict, trace_file, dag_gml, loss_dag,
                 error>>

\* lines 232-233
SaveLoadTraces ==
  /\ pc = "save_trace"
  /\ mxnet_traces' = temp_json
  /\ pc' = "gen_dag"
  /\ UNCHANGED <<tracker_vars, input_vars, files, wpc, wait_cnt, wait_log,
                 dag, rst_traces, time_dict, trace_file, dag_gml, loss_dag, error>>

\* line 241: one loss graph per entry of self.loss
LossDags(ls) ==
  [i \in 1..Len(ls) |-> IF ls[i] = None THEN None
                        ELSE Some(gen_dag(Val(ls[i]), FALSE))]

\* gen_dag writes its argument to <_str_name>.txt (lines 406-407)
LossFileNames == <<"loss0.txt", "loss1.txt", "loss2.txt", "loss3.txt">>
LossFiles(ls) == {LossFileNames[j] : j \in {i \in 1..Len(ls) : ls[i] # None}}

\* lines 236-241 and 244: the main graph and the loss graphs
SaveGenDag ==
  /\ pc = "gen_dag"
  /\ IF symbol # None
     THEN /\ dag' = gen_dag(Val(symbol), TRUE)
          /\ files' = files \cup {"symbol_debug_str.txt"}
          /\ pc' = "collect_computation"
          /\ UNCHANGED <<loss_dag, error>>
     ELSE IF block # None
     THEN /\ dag' = gen_dag(Val(block), TRUE)
          /\ IF loss = None
             THEN /\ files' = files \cup {"symbol_debug_str.txt"}
                  /\ Raised("TypeError")
                  /\ UNCHANGED loss_dag
             ELSE /\ files' = files \cup {"symbol_debug_str.txt"} \cup LossFiles(Val(loss))
                  /\ loss_dag' = Some(LossDags(Val(loss)))
                  /\ pc' = "combine_loss"
                  /\ UNCHANGED error
     ELSE /\ Raised("ValueError")
          /\ UNCHANGED <<dag, files, loss_dag>>
  /\ UNCHANGED <<tracker_vars, input_vars, wpc, wait_cnt, wait_log,
                 mxnet_traces, rst_traces, time_dict, trace_file, dag_gml>>

\* line 242: combine_loss_dag splices the loss graphs into self.dag
SaveCombineLoss ==
  /\ pc = "combine_loss"
  /\ LET r == combine_loss_dag(dag, Val(loss_dag))
     IN /\ dag' = r.val
        /\ IF r.err = ""
           THEN /\ loss_dag' = None
                /\ pc' = "collect_computation"
                /\ UNCHANGED error
           ELSE /\ Raised(r.err)
                /\ UNCHANGED loss_dag
  /\ UNCHANGED <<tracker_vars, input_vars, files, wpc, wait_cnt, wait_log,
                 mxnet_traces, rst_traces, time_dict, trace_file, dag_gml>>

\* line 247, and the call of byteps_collect_io up to its wait (lines 250, 196)
SaveCollectComputation ==
  /\ pc = "collect_computation"
  /\ LET r == byteps_collect_computation(mxnet_traces, dag)
     IN IF r.err = ""
        THEN /\ rst_traces' = r.val
             /\ pc' = "io_wait"
             /\ EnterWait("I/O")
             /\ UNCHANGED error
        ELSE /\ Raised(r.err)
             /\ UNCHANGED <<rst_traces, wpc, wait_cnt, wait_log>>
  /\ UNCHANGED <<tracker_vars, input_vars, files, mxnet_traces, dag,
                 time_dict, trace_file, dag_gml, loss_dag>>

\* lines 197-199, and the call of byteps_collect_comm up to its wait (line 205)
CollectIoRead ==
  /\ pc = "io_read"
  /\ time_dict' = Some(Val(time_dict) \o io_json)
  /\ pc' = "comm_wait"
  /\ EnterWait("Comm")
  /\ UNCHANGED <<tracker_vars, input_vars, files, mxnet_traces, dag,
                 rst_traces, trace_file, dag_gml, loss_dag, error>>

\* lines 206-228
CollectCommRead ==
  /\ pc = "comm_read"
  /\ LET r == CommLoop(comm_json, 1, gradient_name_list, dag, << >>)
     IN /\ time_dict' = Some(Val(time_dict) \o r.val)
        /\ IF r.err = ""
           THEN /\ files' = files \cup {"gradient_name_list.txt"}
                /\ pc' = "write_trace"
                /\ UNCHANGED error
           ELSE /\ Raised(r.err)
                /\ UNCHANGED files
  /\ wait_cnt' = 0
  /\ wait_log' = NoWait
  /\ UNCHANGED <<tracker_vars, input_vars, wpc, mxnet_traces, dag, rst_traces,
                 trace_file, dag_gml, loss_dag>>

\* lines 254-256
SaveWriteTrace ==
  /\ pc = "write_trace"
  /\ time_dict' = Some(Val(time_dict) \o rst_traces)
  /\ trace_file' = Some(Val(time_dict) \o rst_traces)
  /\ files' = files \cup {"bps_trace.json"}
  /\ pc' = "write_dag"
  /\ UNCHANGED <<tracker_vars, input_vars, wpc, wait_cnt, wait_log,
                 mxnet_traces, dag, rst_traces, dag_gml, loss_dag, error>>

\* lines 259-262
SaveWriteDag ==
  /\ pc = "write_dag"
  /\ dag_gml' = Some(dag)
  /\ files' = files \cup {"dag.gml"}
  /\ time_dict' = None
  /\ pc' = "done"
  /\ UNCHANGED <<tracker_vars, input_vars, wpc, wait_cnt, wait_log,
                 mxnet_traces, dag, rst_traces, trace_file, loss_dag, error>>

\* ------------------------------------------------------------- the inputs
MaxTs == 2   \* timestamps of the I/O and communication events range over 0..MaxTs

\* debug dumps: operators A (Dense) and B (Relu) over the variable data
\* the dump of the spec's scenario: no outputs, no weights
DumpScenario ==
  << <<Line("text", <<"Symbol Outputs:">>, ""), Line("Variable", <<"data">>, "")>>,
     <<Line("head", <<"A">>, "Dense"), Line("text", <<"Inputs:">>, ""),
       Line("arg", <<"data">>, "")>>,
     <<Line("head", <<"B", "_fwd">>, "Relu"), Line("text", <<"Inputs:">>, ""),
       Line("arg", <<"A">>, "")>> >>

\* one output, weight w0 of A and weight w1 of B
DumpPlain ==
  << <<Line("text", <<"Symbol Outputs:">>, ""), Line("output", <<"B", "_fwd">>, ""),
       Line("Variable", <<"data">>, ""), Line("Variable", <<"w0">>, "")>>,
     <<Line("head", <<"A">>, "Dense"), Line("text", <<"Inputs:">>, ""),
       Line("arg", <<"data">>, ""), Line("arg", <<"w0">>, ""),
       Line("Variable", <<"w1">>, "")>>,
     <<Line("head", <<"B", "_fwd">>, "Relu"), Line("text", <<"Inputs:">>, ""),
       Line("arg", <<"A">>, ""), Line("arg", <<"w1">>, "")>> >>

\* weight w0 is declared before A and before B, w1 nowhere
DumpShared ==
  << <<Line("text", <<"Symbol Outputs:">>, ""), Line("output", <<"B", "_fwd">>, ""),
       Line("Variable", <<"data">>, ""), Line("Variable", <<"w0">>, "")>>,
     <<Line("head", <<"A">>, "Dense"), Line("text", <<"Inputs:">>, ""),
       Line("arg", <<"data">>, ""), Line("arg", <<"w0">>, ""),
       Line("Variable", <<"w0">>, "")>>,
     <<Line("head", <<"B", "_fwd">>, "Relu"), Line("text", <<"Inputs:">>, ""),
       Line("arg", <<"A">>, ""), Line("arg", <<"w0">>, "")>> >>

\* a loss head L over the variable data
DumpLoss ==
  << <<Line("text", <<"Symbol Outputs:">>, ""), Line("output", <<"L">>, ""),
       Line("Variable", <<"data">>, "")>>,
     <<Line("head", <<"L">>, "SoftmaxOutput"), Line("text", <<"Inputs:">>, ""),
       Line("arg", <<"data">>, "")>> >>

SymbolDumps == {DumpScenario, DumpPlain, DumpShared}
BlockDumps == {DumpScenario, DumpPlain}
LossLists == {<<None>>, <<Some(DumpLoss)>>}

\* a begin record and its end record, adjacent as the profiler dumps them
BeginEnd(name, ts, dur, pid) ==
  <<Event(name, ts, "B", pid, "operator"), Event(name, ts + dur, "E", pid, "operator")>>

\* a record without "ts" (process metadata)
Metadata(pid) ==
  [Event(<<"process_name">>, 0, "M", pid, "__metadata") EXCEPT !.has_ts = FALSE]

\* one training step and the start of the next, in timestamp order
StreamCycle ==
  <<Metadata(<<"p0">>)>>
  \o BeginEnd(<<"A">>, 1, 1, <<"p0">>)
  \o BeginEnd(<<"B", "_fwd">>, 3, 1, <<"p0">>)
  \o BeginEnd(<<"B", "_backward">>, 4, 1, <<"p1">>)
  \o BeginEnd(<<"B", "_backward">>, 5, 1, <<"p0">>)
  \o BeginEnd(<<"A", "_backward">>, 7, 1, <<"p0">>)
  \o BeginEnd(<<"DeleteVariable">>, 8, 1, <<"p0">>)
  \o BeginEnd(<<"SGDUpdate">>, 9, 2, <<"p0">>)
  \o BeginEnd(<<"A">>, 12, 1, <<"p0">>)

\* the same step with records out of timestamp order and a second process id
StreamUnsorted ==
  BeginEnd(<<"B", "_fwd">>, 3, 1, <<"p0">>)
  \o BeginEnd(<<"A">>, 1, 1, <<"p0">>)
  \o BeginEnd(<<"A">>, 2, 1, <<"p1">>)
  \o BeginEnd(<<"A", "_backward">>, 7, 1, <<"p0">>)
  \o BeginEnd(<<"B", "_backward">>, 5, 1, <<"p0">>)

\* a begin record that is the last record
StreamOpenEnd ==
  BeginEnd(<<"A">>, 1, 1, <<"p0">>) \o <<Event(<<"B", "_fwd">>, 3, "B", <<"p0">>, "operator")>>

\* a begin record followed by the begin record of another operator
StreamNested ==
  <<Event(<<"A">>, 1, "B", <<"p0">>, "operator")>>
  \o BeginEnd(<<"B", "_fwd">>, 2, 1, <<"p0">>)
  \o <<Event(<<"A">>, 4, "E", <<"p0">>, "operator")>>

\* operator A on two process ids, the records of the two interleaved
StreamInterleaved ==
  <<Event(<<"A">>, 100, "B", <<"p0">>, "operator"),
    Event(<<"A">>, 110, "B", <<"p1">>, "operator"),
    Event(<<"A">>, 140, "E", <<"p0">>, "operator"),
    Event(<<"A">>, 150, "E", <<"p1">>, "operator")>>

ComputeStreams == {StreamCycle, StreamUnsorted, StreamOpenEnd, StreamNested}

IoStreams ==
  {<<Event(<<"I/O">>, t, "X", <<"I/O">>, "io")>> : t \in 0..MaxTs}

\* a communication record of tensor byteps.gradient_<k>: the main task, or
\* its PUSH subtask
CommEvent(k, sub, ts) ==
  LET tensor == GradientMarker \o <<FormatInt(k)>>
  IN [Event(IF sub THEN tensor \o <<".", "PUSH">> ELSE tensor,
            ts, "X", <<"byteps">>, "comm")
        EXCEPT !.args = [name |-> tensor, inputs |-> << >>]]

\* a record of a tensor that is no gradient, then one gradient record
CommStreams ==
  {<<[CommEvent(0, FALSE, 0) EXCEPT !.name = <<"byteps", ".", "parameter", "_", "0">>,
                                    !.args.name = <<"byteps", ".", "parameter", "_", "0">>],
     CommEvent(k, sub, MaxTs)>> : k \in Index, sub \in BOOLEAN}

ThreadIdle ==
  /\ files = {}
  /\ pc = "idle"
  /\ wpc = "none"
  /\ wait_cnt = 0
  /\ wait_log = NoWait
  /\ mxnet_traces = << >>
  /\ dag = EmptyDag
  /\ rst_traces = << >>
  /\ trace_file = None
  /\ dag_gml = None
  /\ loss_dag = None
  /\ error = None
  /\ io_json = << >>
  /\ comm_json = << >>

\* ------------------------------------------------------------ tracker spec
Environs == [BYTEPS_TRACE_ON : BOOLEAN,
             BYTEPS_TRACE_START_STEP : 0..MaxCfg,
             BYTEPS_TRACE_END_STEP : 0..(MaxCfg + 1),
             BYTEPS_TRACE_STATUS : {""}]

Init ==
  /\ environ \in Environs
  /\ phase = "new"
  /\ _end_trace = FALSE
  /\ step_cnt = 0
  /\ start_step = Unset
  /\ end_step = Unset
  /\ idx_dict = << >>
  /\ gradient_name_list = None
  /\ profiler_state = "stop"
  /\ profiler_dumps = 0
  /\ threads = 0
  /\ owner = "none"
  /\ call = NoCall
  /\ emit_pending = {}
  /\ told_marked = [i \in Index |-> 0]
  /\ \/ symbol \in {None, Some(DumpPlain)} /\ block = None /\ loss = None
     \/ symbol = None /\ block = Some(DumpPlain) /\ loss = Some(<<Some(DumpLoss)>>)
  /\ grad_req = [i \in Index |-> "write"]
  /\ temp_json = StreamCycle
  /\ time_dict = None
  /\ ThreadIdle

Next ==
  \/ DistributedOptimizerInit
  \/ DistributedTrainerInit
  \/ \E index \in Index, check_stop \in BOOLEAN : Scheduler(index, check_stop)
  \/ \E index \in Index : End4Index(index)

Spec == Init /\ [][Next]_vars

\* ------------------------------------------------------ the callers' spec
\* DistributedOptimizer._do_push_pull (lines 538-542) and
\* DistributedTrainer._allreduce_grads (lines 695-696) call
\* scheduler(i, i == 0) and, when it returns True, end4index(i); the trainer
\* calls end4index only for a parameter whose grad_req is not 'null'.
\* The caller stands between the two calls when the last call on the
\* Recorder is a scheduler call that returned True and end4index is to follow.
CompletionDue ==
  /\ call.op = "scheduler" /\ call.ret = "True"
  /\ owner = "trainer" => grad_req[call.index] # "null"

\* lines 538, 541 and 695: scheduler(index, True if index == 0 else False)
CallerObserve(index) ==
  /\ ~CompletionDue
  /\ Scheduler(index, index = 0)

\* lines 539, 542 and 696: end4index for the index scheduler was called with
CallerComplete ==
  /\ CompletionDue
  /\ End4Index(call.index)

\* the parameter of index 0 has a gradient; any other may have grad_req 'null'
GradReqs == {g \in [Index -> {"write", "null"}] : g[0] = "write"}

InitTrain ==
  /\ environ \in Environs
  /\ phase = "new"
  /\ _end_trace = FALSE
  /\ step_cnt = 0
  /\ start_step = Unset
  /\ end_step = Unset
  /\ idx_dict = << >>
  /\ gradient_name_list = None
  /\ profiler_state = "stop"
  /\ profiler_dumps = 0
  /\ threads = 0
  /\ owner = "none"
  /\ call = NoCall
  /\ emit_pending = {}
  /\ told_marked = [i \in Index |-> 0]
  /\ \/ symbol = Some(DumpPlain) /\ block = None /\ loss = None
     \/ symbol = None /\ block = Some(DumpPlain) /\ loss = Some(<<Some(DumpLoss)>>)
  /\ grad_req \in GradReqs
  /\ temp_json = StreamCycle
  /\ time_dict = None
  /\ ThreadIdle

NextTrain ==
  \/ DistributedOptimizerInit
  \/ DistributedTrainerInit
  \/ \E index \in Index : CallerObserve(index)
  \/ CallerComplete

\* The training loop goes on: every index is observed again in every step,
\* and the caller that was told to emit makes its completion call.
SpecTrain ==
  /\ InitTrain /\ [][NextTrain]_vars
  /\ \A index \in Index : WF_vars(CallerObserve(index))
  /\ WF_vars(CallerComplete)

\* ----------------------------------------------- the get_traces thread spec
\* The Recorder has just finished: scheduler set _end_trace, stopped and
\* dumped the profiler and started the thread. Spec reaches this state with
\* thresholds 1 and 2: every index is told to emit at step 2 and marked, and
\* the next scheduler call for index 0 finds every flag True.
FinishedTracker ==
  /\ environ = [BYTEPS_TRACE_ON |-> TRUE, BYTEPS_TRACE_START_STEP |-> 1,
                BYTEPS_TRACE_END_STEP |-> 2, BYTEPS_TRACE_STATUS |-> "END"]
  /\ phase = "ready"
  /\ _end_trace = TRUE
  /\ step_cnt = 2
  /\ start_step = 1
  /\ end_step = 2
  /\ idx_dict = [i \in Index |-> TRUE]
  /\ gradient_name_list = Some(IF owner = "trainer" THEN ParamNames ELSE ManifestLines)
  /\ profiler_state = "stop"
  /\ profiler_dumps = 1
  /\ threads = 1
  /\ call = [op |-> "scheduler", index |-> 0, check_stop |-> TRUE, ret |-> "False",
             pre_step_cnt |-> 2, pre_end_trace |-> FALSE, pre_marked |-> TRUE]
  /\ emit_pending = {}
  /\ told_marked = [i \in Index |-> 1]
  /\ time_dict = Some(<< >>)

InitSave ==
  /\ \/ owner = "optimizer" /\ symbol \in {None} \cup {Some(d) : d \in SymbolDumps}
        /\ block = None /\ loss = None
     \/ owner = "trainer" /\ symbol = None /\ block \in {Some(d) : d \in BlockDumps}
        /\ loss \in {None} \cup {Some(l) : l \in LossLists}
  /\ FinishedTracker
  /\ grad_req = [i \in Index |-> "write"]
  /\ temp_json \in ComputeStreams \cup {StreamInterleaved}
  /\ files = {}
  /\ pc = "get_traces"
  /\ wpc = "none"
  /\ wait_cnt = 0
  /\ wait_log = NoWait
  /\ mxnet_traces = << >>
  /\ dag = EmptyDag
  /\ rst_traces = << >>
  /\ trace_file = None
  /\ dag_gml = None
  /\ loss_dag = Some(<< >>)
  /\ error = None
  /\ io_json = << >>
  /\ comm_json = << >>

NextSave ==
  \/ GetTraces
  \/ SaveLoadTraces
  \/ SaveGenDag
  \/ SaveCombineLoss
  \/ SaveCollectComputation
  \/ \E name \in {"I/O", "Comm"} : WaitPoll(name)
  \/ \E name \in {"I/O", "Comm"} : WaitSleep(name)
  \/ CollectIoRead
  \/ CollectCommRead
  \/ SaveWriteTrace
  \/ SaveWriteDag
  \/ \E events \in IoStreams : IoProducerWrites(events)
  \/ \E events \in CommStreams : CommProducerWrites(events)

SpecSave == InitSave /\ [][NextSave]_vars

\* ------------------------------------- the tracker and the thread together
\* The Recorder has just finished (FinishedTracker, the state scheduler's
\* finished transition leaves) and the training thread goes on calling
\* scheduler and end4index while the get_traces thread runs.
InitRun ==
  /\ \/ owner = "optimizer" /\ symbol = Some(DumpPlain) /\ block = None /\ loss = None
     \/ owner = "trainer" /\ symbol = None /\ block = Some(DumpPlain)
        /\ loss = Some(<<Some(DumpLoss)>>)
  /\ FinishedTracker
  /\ grad_req = [i \in Index |-> "write"]
  /\ temp_json = StreamCycle
  /\ files = {}
  /\ pc = "get_traces"
  /\ wpc = "none"
  /\ wait_cnt = 0
  /\ wait_log = NoWait
  /\ mxnet_traces = << >>
  /\ dag = EmptyDag
  /\ rst_traces = << >>
  /\ trace_file = None
  /\ dag_gml = None
  /\ loss_dag = Some(<< >>)
  /\ error = None
  /\ io_json = << >>
  /\ comm_json = << >>

\* the thread's steps, without the producers
ThreadStep ==
  \/ GetTraces
  \/ SaveLoadTraces
  \/ SaveGenDag
  \/ SaveCombineLoss
  \/ SaveCollectComputation
  \/ \E name \in {"I/O", "Comm"} : WaitPoll(name)
  \/ \E name \in {"I/O", "Comm"} : WaitSleep(name)
  \/ CollectIoRead
  \/ CollectCommRead
  \/ SaveWriteTrace
  \/ SaveWriteDag

\* The get_traces thread alone with the two producers, over inputs that
\* lead to each of its ends: the files written, no symbol or block, a
\* pairing failure, a predecessor count other than 1, a timeout.
InitFair ==
  /\ \/ owner = "optimizer" /\ symbol \in {None, Some(DumpPlain), Some(DumpShared)}
        /\ block = None /\ loss = None
     \/ owner = "trainer" /\ symbol = None /\ block = Some(DumpPlain)
        /\ loss = Some(<<Some(DumpLoss)>>)
  /\ FinishedTracker
  /\ grad_req = [i \in Index |-> "write"]
  /\ temp_json \in {StreamCycle, StreamOpenEnd}
  /\ files = {}
  /\ pc = "get_traces"
  /\ wpc = "none"
  /\ wait_cnt = 0
  /\ wait_log = NoWait
  /\ mxnet_traces = << >>
  /\ dag = EmptyDag
  /\ rst_traces = << >>
  /\ trace_file = None
  /\ dag_gml = None
  /\ loss_dag = Some(<< >>)
  /\ error = None
  /\ io_json = << >>
  /\ comm_json = << >>

NextFair ==
  \/ ThreadStep
  \/ IoProducerWrites(<<Event(<<"I/O">>, 0, "X", <<"I/O">>, "io")>>)
  \/ CommProducerWrites(<<CommEvent(0, FALSE, 0)>>)

\* The get_traces thread is a running thread: a step of it that can be taken
\* is taken in the end (time.sleep returns, the calls of save_trace return or
\* raise). The producers of io.json and comm.json may never write.
SpecSaveFair == InitFair /\ [][NextFair]_vars /\ WF_vars(ThreadStep)

NextRun ==
  \/ \E index \in Index, check_stop \in BOOLEAN : Scheduler(index, check_stop)
  \/ \E index \in Index : End4Index(index)
  \/ ThreadStep
  \/ IoProducerWrites(<<Event(<<"I/O">>, 0, "X", <<"I/O">>, "io")>>)
  \/ CommProducerWrites(<<CommEvent(0, FALSE, 0)>>)

SpecRun == InitRun /\ [][NextRun]_vars

\* -------------------------------------- the graph and correlation spec
\* save_trace from the load of temp.json to the end of
\* byteps_collect_computation, over a family of dumps and streams.
MaxOutputs == 2   \* a generated dump declares at most this many outputs

Lines(kind, names) == [i \in 1..Len(names) |-> Line(kind, names[i], "")]

\* the sub-lists of s, in the order of s
SubLists(s) ==
  {SelectSeq(s, LAMBDA x : x \in S) : S \in SUBSET {s[i] : i \in 1..Len(s)}}

OutputLists == UNION {[1..n -> {<<"B", "_fwd">>, <<"A">>}] : n \in 0..MaxOutputs}

\* a dump of operators A and B: the outputs and variables of the first
\* block, the arguments of A, the variables declared after them, the
\* arguments of B
DumpOf(outs, vars0, a_args, vars1, b_args) ==
  << <<Line("text", <<"Symbol Outputs:">>, "")>> \o Lines("output", outs)
       \o Lines("Variable", vars0),
     <<Line("head", <<"A">>, "Dense"), Line("text", <<"Inputs:">>, "")>>
       \o Lines("arg", a_args) \o Lines("Variable", vars1),
     <<Line("head", <<"B", "_fwd">>, "Relu"), Line("text", <<"Inputs:">>, "")>>
       \o Lines("arg", b_args) >>

DumpFamily ==
  {DumpOf(outs, vars0, a_args, vars1, b_args) :
     outs \in OutputLists,
     vars0 \in SubLists(<< <<"data">>, <<"w0">> >>),
     a_args \in SubLists(<< <<"data">>, <<"w0">> >>),
     vars1 \in {<< >>, << <<"w1">> >>, << <<"w0">> >>},
     b_args \in {<< <<"A">> >>, << <<"A">>, <<"w1">> >>, << <<"A">>, <<"w0">> >>}}

\* two outputs: B and A
DumpTwoOut ==
  DumpOf(<< <<"B", "_fwd">>, <<"A">> >>, << <<"data">>, <<"w0">> >>,
         << <<"data">>, <<"w0">> >>, << <<"w1">> >>, << <<"A">>, <<"w1">> >>)

TrainerDumps == {DumpScenario, DumpPlain, DumpTwoOut}
TrainerLossLists ==
  {<<None>>, <<Some(DumpLoss)>>, <<Some(DumpScenario)>>, <<None, Some(DumpLoss)>>,
   <<Some(DumpLoss), Some(DumpLoss)>>}

\* one operator: begin at 100, end at 140
StreamPair == BeginEnd(<<"A">>, 100, 40, <<"p0">>)

\* A on one process id and B on another, interleaved
StreamInterleavedOps ==
  <<Event(<<"A">>, 100, "B", <<"p0">>, "operator"),
    Event(<<"B", "_fwd">>, 110, "B", <<"p1">>, "operator"),
    Event(<<"A">>, 140, "E", <<"p0">>, "operator"),
    Event(<<"B", "_fwd">>, 150, "E", <<"p1">>, "operator")>>

\* a step with only an ignored operator before the next step starts
StreamNoGap ==
  BeginEnd(<<"A">>, 1, 1, <<"p0">>)
  \o BeginEnd(<<"B", "_fwd">>, 3, 1, <<"p0">>)
  \o BeginEnd(<<"B", "_backward">>, 5, 1, <<"p0">>)
  \o BeginEnd(<<"A", "_backward">>, 7, 1, <<"p0">>)
  \o BeginEnd(<<"DeleteVariable">>, 8, 1, <<"p0">>)
  \o BeginEnd(<<"A">>, 12, 1, <<"p0">>)

\* two steps: the second ends the stream with two update operators
StreamTwoSteps ==
  StreamCycle
  \o BeginEnd(<<"B", "_fwd">>, 14, 1, <<"p0">>)
  \o BeginEnd(<<"B", "_backward">>, 16, 1, <<"p0">>)
  \o BeginEnd(<<"A", "_backward">>, 18, 1, <<"p0">>)
  \o BeginEnd(<<"SGDUpdate">>, 20, 1, <<"p0">>)
  \o BeginEnd(<<"Cast">>, 22, 1, <<"p0">>)
  \o BeginEnd(<<"SGDUpdate">>, 24, 3, <<"p0">>)

\* a step whose first record is of process id p1 and later than the first
\* record of p0; an update operator on each process id
StreamLatePid ==
  BeginEnd(<<"A">>, 2, 1, <<"p1">>)
  \o BeginEnd(<<"A">>, 1, 1, <<"p0">>)
  \o BeginEnd(<<"B", "_fwd">>, 3, 1, <<"p0">>)
  \o BeginEnd(<<"B", "_backward">>, 5, 1, <<"p0">>)
  \o BeginEnd(<<"A", "_backward">>, 7, 1, <<"p0">>)
  \o BeginEnd(<<"SGDUpdate">>, 9, 2, <<"p1">>)
  \o BeginEnd(<<"SGDUpdate">>, 10, 2, <<"p0">>)
  \o BeginEnd(<<"A">>, 13, 1, <<"p0">>)

\* forward operators only, with an update operator between two passes
StreamInference ==
  BeginEnd(<<"A">>, 1, 1, <<"p0">>)
  \o BeginEnd(<<"B", "_fwd">>, 3, 1, <<"p0">>)
  \o BeginEnd(<<"SGDUpdate">>, 5, 1, <<"p0">>)
  \o BeginEnd(<<"A">>, 8, 1, <<"p0">>)
  \o BeginEnd(<<"B", "_fwd">>, 10, 1, <<"p0">>)

\* one step and its update operator, no forward operator after it
StreamOneStep ==
  BeginEnd(<<"A">>, 1, 1, <<"p0">>)
  \o BeginEnd(<<"B", "_fwd">>, 3, 1, <<"p0">>)
  \o BeginEnd(<<"B", "_backward">>, 5, 1, <<"p0">>)
  \o BeginEnd(<<"A", "_backward">>, 7, 1, <<"p0">>)
  \o BeginEnd(<<"SGDUpdate">>, 9, 2, <<"p0">>)

\* the stream starts inside a backward pass; in each step the backward
\* operator of A runs before that of B
StreamLateStart ==
  BeginEnd(<<"A", "_backward">>, 1, 1, <<"p0">>)
  \o BeginEnd(<<"A">>, 2, 1, <<"p0">>)
  \o BeginEnd(<<"B", "_fwd">>, 3, 1, <<"p0">>)
  \o BeginEnd(<<"A", "_backward">>, 5, 1, <<"p0">>)
  \o BeginEnd(<<"B", "_backward">>, 7, 1, <<"p0">>)
  \o BeginEnd(<<"SGDUpdate">>, 9, 1, <<"p0">>)
  \o BeginEnd(<<"A">>, 12, 1, <<"p0">>)
  \o BeginEnd(<<"B", "_fwd">>, 13, 1, <<"p0">>)
  \o BeginEnd(<<"B", "_backward">>, 15, 1, <<"p0">>)
  \o BeginEnd(<<"SGDUpdate">>, 16, 1, <<"p0">>)
  \o BeginEnd(<<"A", "_backward">>, 17, 1, <<"p0">>)
  \o BeginEnd(<<"SGDUpdate">>, 18, 1, <<"p0">>)

\* The operators of these streams are A and B: the node names hold "FW" and
\* "BW" only as their prefix.
DagStreams ==
  ComputeStreams \cup {StreamPair, StreamInterleaved, StreamInterleavedOps,
                       StreamNoGap, StreamTwoSteps, StreamLatePid,
                       StreamInference, StreamOneStep, StreamLateStart}

\* the name the profiler gives the operator of a graph node
RawName(n) ==
  IF n[1] = "FW." THEN Tail(n)
  ELSE IF n[1] = "BW." THEN Tail(n) \o <<"_backward">>
  ELSE n

\* one begin record and its end record per node, all of one process id
NodeStream(nodes) ==
  [j \in 1..(2 * Len(nodes)) |->
     LET i == (j + 1) \div 2
     IN Event(RawName(nodes[i]), IF j % 2 = 1 THEN 10 * i ELSE 11 * i,
              IF j % 2 = 1 THEN "B" ELSE "E", <<"p0">>, "operator")]

\* the nodes of operators: FW.<name> and BW.<name>
OperatorNodes(g) == SelectSeq(g.nodes, LAMBDA n : n[1] \in {"FW.", "BW."})

\* the graph save_trace builds for a block and its loss heads
SplicedDag(blk, ls) == combine_loss_dag(gen_dag(blk, TRUE), LossDags(ls)).val

InitDag ==
  /\ \/ owner = "optimizer" /\ symbol \in {Some(d) : d \in DumpFamily}
        /\ block = None /\ loss = None
        /\ temp_json \in {NodeStream(gen_dag(Val(symbol), TRUE).nodes),
                          NodeStream(OperatorNodes(gen_dag(Val(symbol), TRUE)))}
     \/ owner = "optimizer" /\ symbol \in {Some(d) : d \in SymbolDumps}
        /\ block = None /\ loss = None
        /\ temp_json \in DagStreams
     \/ owner = "trainer" /\ symbol = None /\ block \in {Some(d) : d \in TrainerDumps}
        /\ loss \in {Some(l) : l \in TrainerLossLists}
        /\ temp_json \in DagStreams
                          \cup {NodeStream(SplicedDag(Val(block), Val(loss)).nodes),
                                NodeStream(OperatorNodes(SplicedDag(Val(block), Val(loss))))}
  /\ FinishedTracker
  /\ grad_req = [i \in Index |-> "write"]
  /\ files = {}
  /\ pc = "save_trace"
  /\ wpc = "none"
  /\ wait_cnt = 0
  /\ wait_log = NoWait
  /\ mxnet_traces = << >>
  /\ dag = EmptyDag
  /\ rst_traces = << >>
  /\ trace_file = None
  /\ dag_gml = None
  /\ loss_dag = Some(<< >>)
  /\ error = None
  /\ io_json = << >>
  /\ comm_json = << >>

NextDag ==
  \/ SaveLoadTraces
  \/ SaveGenDag
  \/ SaveCombineLoss
  \/ SaveCollectComputation

SpecDag == InitDag /\ [][NextDag]_vars

\* ================================================================ claims
BadConfig(env) ==
  env.BYTEPS_TRACE_START_STEP < 1 \/ env.BYTEPS_TRACE_END_STEP <= env.BYTEPS_TRACE_START_STEP

Tracing == phase = "ready" /\ TraceOn(environ)

C2_BadConfigRaises ==
  BadConfig(environ) => phase \in {"new", "raised"}

\* the two ValueErrors of lines 98-101
ConfigErrors == {"ValueError(START_STEP)", "ValueError(END_STEP)"}

\* C2 amended: with tracing on (BYTEPS_TRACE_ON = '1'), Recorder.__init__ with
\* start < 1 or end <= start raises ValueError, so that no scheduler or
\* end4index call is ever made on a Recorder with such thresholds; with
\* thresholds in order it raises neither of the two errors.
C2_TracingBadConfigRaises ==
  /\ (TraceOn(environ) /\ BadConfig(environ) /\ phase # "new")
       => (phase = "raised" /\ call.op = "__init__" /\ call.ret \in ConfigErrors)
  /\ (TraceOn(environ) /\ BadConfig(environ)) => call.op \in {"none", "__init__"}
  /\ (TraceOn(environ) /\ ~BadConfig(environ)) => call.ret \notin ConfigErrors

C2_Witness ==
  /\ phase = "raised" /\ call.op = "__init__" /\ call.ret = "ValueError(END_STEP)"
  /\ environ.BYTEPS_TRACE_START_STEP >= 1
  /\ environ.BYTEPS_TRACE_END_STEP = environ.BYTEPS_TRACE_START_STEP

\* C3: a scheduler call for an index not marked, on a Recorder not finished,
\* whose step_cnt after the call's increment is at least end_step returns True.
C3_AtEndEmits ==
  (call.op = "scheduler" /\ ~call.pre_end_trace /\ ~call.pre_marked
     /\ step_cnt >= end_step)
    => call.ret = "True"

C3_Witness ==
  /\ call.op = "scheduler" /\ ~call.pre_end_trace /\ ~call.pre_marked
  /\ call.check_stop /\ call.pre_step_cnt = end_step - 1 /\ step_cnt = end_step
  /\ call.ret = "True"

\* C4: a scheduler call for an index that end4index has marked returns False,
\* in any state and for any step_cnt; no index is told to emit and then
\* marked more than once.
C4_MarkedNeverEmits ==
  /\ (call.op = "scheduler" /\ call.pre_marked) => call.ret = "False"
  /\ \A i \in Index : told_marked[i] <= 1

C4_Witness ==
  /\ call.op = "scheduler" /\ call.pre_marked /\ ~call.pre_end_trace
  /\ step_cnt >= end_step /\ told_marked[call.index] = 1
  /\ call.ret = "False"

\* C5: the finished transition (_end_trace set, profiler stopped and dumped,
\* get_traces thread started) happens at most once, and every scheduler call
\* made after it returns False.
C5_FinishOnce ==
  /\ threads <= 1
  /\ profiler_dumps = threads
  /\ threads = 1 => (_end_trace /\ environ.BYTEPS_TRACE_STATUS = "END")
  /\ (call.op = "scheduler" /\ call.pre_end_trace) => call.ret = "False"

C5_Witness ==
  /\ threads = 1 /\ call.op = "scheduler" /\ call.pre_end_trace
  /\ call.check_stop /\ step_cnt >= end_step

\* C6: in idx_dict no registered index is removed and no flag that is True
\* becomes False, at any step, also after the Recorder is finished.
C6_FlagsMonotone ==
  [][\A i \in DOMAIN idx_dict :
       /\ i \in DOMAIN idx_dict'
       /\ idx_dict[i] => idx_dict'[i]]_vars

C6_Witness ==
  /\ threads = 1 /\ call.op = "end4index" /\ call.pre_end_trace
  /\ call.index \in DOMAIN idx_dict /\ idx_dict[call.index]

\* C7: a Recorder that is finished through scheduler (tracing was on) has a
\* non-empty idx_dict whose every flag is True.
C7_FinishedAllTrue ==
  (Tracing /\ _end_trace)
    => (DOMAIN idx_dict # {} /\ \A k \in DOMAIN idx_dict : idx_dict[k])

C7_Witness ==
  /\ Tracing /\ _end_trace /\ threads = 1
  /\ DOMAIN idx_dict = Index

\* ----------------------------------------------------- claims on the thread
SortedByTs(s) == \A i, j \in 1..Len(s) : i < j => s[i].ts <= s[j].ts

\* C8: wait_for_trace returns at the first poll of ready() that is true, and
\* not before; while no poll was true it keeps waiting only as long as
\* wait_cnt * WAIT_TIME does not exceed WAIT_TIME_OUT, and then raises a
\* ValueError whose message holds the name it was given.
C8_WaitReturnsOrTimesOut ==
  /\ wait_log.outcome = "returned"
       => /\ wait_log.hits = 1
          /\ wait_log.polls = wait_cnt + 1
          /\ error = None
  /\ wait_log.outcome = "waiting"
       => /\ wait_log.hits = 0
          /\ wait_cnt * WAIT_TIME <= WAIT_TIME_OUT
          /\ error = None
  /\ wait_log.outcome = "raised"
       => /\ wait_log.hits = 0
          /\ wait_log.polls = wait_cnt
          /\ wait_cnt * WAIT_TIME > WAIT_TIME_OUT
          /\ (wait_cnt - 1) * WAIT_TIME <= WAIT_TIME_OUT
          /\ error = Some([type |-> "ValueError", what |-> "Waiting Time Out",
                           name |-> wait_log.name,
                           waited |-> wait_cnt * WAIT_TIME])

C8_Witness ==
  /\ wait_log.outcome = "raised" /\ wait_log.name = "Comm"
  /\ "io.json" \in files /\ "comm.json" \notin files
  /\ pc = "raised"

\* the dag node of the tensor a record of comm.json names
CommNodeOf(trace) ==
  Comm(Val(gradient_name_list)[ParseInt(LastPiece(trace.args.name, "_")[1]) + 1])

\* C9: save_trace writes the TraceFile or raises, never both: after any
\* exception (no symbol or block, pairing failure, I/O or Comm timeout,
\* predecessor count other than 1) no TraceFile is written, and a TraceFile is
\* written only after every step before it succeeded.
C9_TraceFileAllOrNothing ==
  /\ error # None => (trace_file = None /\ "bps_trace.json" \notin files)
  /\ (trace_file # None) <=> ("bps_trace.json" \in files)
  /\ trace_file # None
       => /\ error = None
          /\ pc \in {"write_dag", "done"}
          /\ symbol # None \/ block # None
          /\ Pairing(temp_json, 1, << >>).err = ""
          /\ {"io.json", "comm.json"} \subseteq files
          /\ \A i \in 1..Len(comm_json) :
                ContainsSub(comm_json[i].args.name, GradientMarker)
                  => Len(Predecessors(dag, CommNodeOf(comm_json[i]))) = 1

C9_Witness ==
  /\ error # None /\ Val(error).type = "AssertionError"
  /\ {"io.json", "comm.json"} \subseteq files
  /\ rst_traces # << >>
  /\ trace_file = None

\* C10 as stated: the events of the TraceFile, whatever stream they come
\* from, are in non-decreasing timestamp order.
C10_FileChronological ==
  trace_file # None => SortedByTs(Val(trace_file))

\* the records of comm.json that name a gradient tensor
GradientRecords(comm) ==
  SelectSeq(comm, LAMBDA e : ContainsSub(e.args.name, GradientMarker))

\* C10 amended: the TraceFile holds the I/O events in the order of io.json,
\* then the gradient records of comm.json in their order, then the
\* compute-derived events (STEP included), and the compute-derived events are
\* in non-decreasing timestamp order among themselves.
C10_StreamsInTurnComputeSorted ==
  trace_file # None =>
    LET f == Val(trace_file)
        n == Len(io_json)
        c == GradientRecords(comm_json)
    IN /\ Len(f) = n + Len(c) + Len(rst_traces)
       /\ SubSeq(f, 1, n) = io_json
       /\ \A i \in 1..Len(c) : f[n + i].ts = c[i].ts /\ f[n + i].cat = c[i].cat
       /\ SubSeq(f, n + Len(c) + 1, Len(f)) = rst_traces
       /\ SortedByTs(rst_traces)

C10_Witness ==
  /\ trace_file # None
  /\ Len(rst_traces) >= 3
  /\ \E i \in 1..Len(rst_traces) : rst_traces[i].name = StepNode
  /\ Len(Val(trace_file)) > Len(rst_traces) + Len(io_json)
  /\ ~SortedByTs(Val(trace_file))

\* ------------------------------------------------------ claims on the graph
\* FW.x is a node of g exactly when BW.x is
FwBwPaired(g) ==
  \A i \in 1..Len(g.nodes) :
    LET n == g.nodes[i]
    IN /\ n[1] = "FW." => InSeq(g.nodes, BW(Tail(n)))
       /\ n[1] = "BW." => InSeq(g.nodes, FW(Tail(n)))

\* C11: in every graph gen_dag builds (the main graph and each loss graph),
\* and in the main graph after combine_loss_dag, node BW.x exists exactly
\* when node FW.x exists.
C11_FwBwNodesPaired ==
  /\ FwBwPaired(dag)
  /\ loss_dag # None
       => \A i \in 1..Len(Val(loss_dag)) :
             Val(loss_dag)[i] # None => FwBwPaired(Val(Val(loss_dag)[i]))

C11_Witness ==
  /\ pc = "collect_computation" /\ block = Some(DumpTwoOut)
  /\ loss = Some(<<None, Some(DumpLoss)>>) /\ loss_dag = None
  /\ InSeq(dag.nodes, FW(<<"L">>)) /\ InSeq(dag.nodes, BW(<<"L">>))
  /\ InSeq(dag.nodes, FW(<<"A">>)) /\ InSeq(dag.nodes, BW(<<"A">>))

\* the operators the first block of a dump declares as outputs before its
\* first Variable line, by index
DeclaredOutputs(blocks) ==
  LET first_ls == blocks[1]
      hits == SelectSeq([i \in 1..Len(first_ls) |->
                           IF \E j \in 1..i : first_ls[j].kind = "Variable"
                           THEN Line("text", << >>, "") ELSE first_ls[i]],
                        LAMBDA l : l.kind = "output")
  IN [i \in 1..Len(hits) |-> StripFwd(hits[i].name)]

\* OUTPUT<k> has the one incoming edge from FW.<operator k> and the one
\* outgoing edge to BW.<operator k>, for every declared k
OutputsOneInOneOut(g, blocks) ==
  \A k \in 1..Len(DeclaredOutputs(blocks)) :
    /\ Predecessors(g, OutputNode(k - 1)) = <<FW(DeclaredOutputs(blocks)[k])>>
    /\ Successors(g, OutputNode(k - 1)) = <<BW(DeclaredOutputs(blocks)[k])>>

\* the dump of the main graph
MainDump == IF symbol # None THEN symbol ELSE block

\* gen_dag has built the main graph and the thread goes on
MainGraphBuilt ==
  MainDump # None /\ pc \in {"combine_loss", "collect_computation", "io_wait"}

\* C12 as stated: each declared output index k has its node OUTPUT<k> with
\* exactly one incoming edge, from the FW. node of its operator, and exactly
\* one outgoing edge, to the BW. node of that operator, in the main graph as
\* gen_dag builds it and also after combine_loss_dag has spliced the loss
\* graphs in.
C12_OutputOneInOneOutAlways ==
  MainGraphBuilt => OutputsOneInOneOut(dag, Val(MainDump))

\* C12 amended: the property holds of every graph as gen_dag returns it (the
\* main graph before splicing, each loss graph); after combine_loss_dag
\* OUTPUT<k> still has FW.<operator k> as first predecessor and
\* BW.<operator k> as first successor, and every edge of loss graph k that
\* touches an OUTPUT node of the loss graph is added at OUTPUT<k>.
C12_OutputOneInOneOutAsBuilt ==
  /\ (MainGraphBuilt /\ loss_dag # None) => OutputsOneInOneOut(dag, Val(MainDump))
  /\ (pc = "combine_loss")
       => \A i \in 1..Len(Val(loss_dag)) :
             Val(loss_dag)[i] # None
               => OutputsOneInOneOut(Val(Val(loss_dag)[i]), Val(Val(loss)[i]))
  /\ (MainGraphBuilt /\ loss_dag = None)
       => /\ \A k \in 1..Len(DeclaredOutputs(Val(MainDump))) :
                /\ Predecessors(dag, OutputNode(k - 1))[1]
                     = FW(DeclaredOutputs(Val(MainDump))[k])
                /\ Successors(dag, OutputNode(k - 1))[1]
                     = BW(DeclaredOutputs(Val(MainDump))[k])
          /\ \A i \in 1..Len(Val(loss)) :
                Val(loss)[i] # None
                  => \A j \in 1..Len(DeclaredOutputs(Val(Val(loss)[i]))) :
                       LET op == DeclaredOutputs(Val(Val(loss)[i]))[j]
                       IN /\ InSeq(dag.edges, <<FW(op), OutputNode(i - 1)>>)
                          /\ InSeq(dag.edges, <<OutputNode(i - 1), BW(op)>>)

C12_Witness ==
  /\ pc = "collect_computation" /\ block = Some(DumpTwoOut)
  /\ loss = Some(<<None, Some(DumpLoss)>>) /\ loss_dag = None
  /\ Predecessors(dag, OutputNode(0)) = <<FW(<<"B">>)>>
  /\ Successors(dag, OutputNode(0)) = <<BW(<<"B">>)>>
  /\ Predecessors(dag, OutputNode(1)) = <<FW(<<"A">>), FW(<<"L">>)>>
  /\ Successors(dag, OutputNode(1)) = <<BW(<<"A">>), BW(<<"L">>)>>

\* the edges of g, as a set
EdgeSet(g) == {g.edges[i] : i \in 1..Len(g.edges)}

\* the edges of the scenario that do not touch STEP
ScenarioCoreEdges ==
  {<<IONode, FW(<<"A">>)>>, <<FW(<<"A">>), FW(<<"B">>)>>, <<BW(<<"B">>), BW(<<"A">>)>>}

\* C13: for the dump with no outputs, operator A over the variable data and
\* operator B over A, gen_dag with _main=True gives exactly the edges
\* I/O -> FW.A, FW.A -> FW.B, BW.B -> BW.A, BW.A -> STEP, STEP -> FW.A, and
\* with _main=False the same edges without the two that touch STEP.
C13_ScenarioGraph ==
  /\ (MainGraphBuilt /\ MainDump = Some(DumpScenario) /\ loss_dag # None)
       => /\ EdgeSet(dag) = ScenarioCoreEdges
                              \cup {<<BW(<<"A">>), StepNode>>, <<StepNode, FW(<<"A">>)>>}
          /\ Len(dag.edges) = 5
  /\ pc = "combine_loss"
       => \A i \in 1..Len(Val(loss)) :
             Val(loss)[i] = Some(DumpScenario)
               => /\ EdgeSet(Val(Val(loss_dag)[i])) = ScenarioCoreEdges
                  /\ Len(Val(Val(loss_dag)[i]).edges) = 3

C13_Witness ==
  /\ pc = "combine_loss" /\ block = Some(DumpScenario)
  /\ loss = Some(<<Some(DumpScenario)>>)
  /\ InSeq(dag.edges, <<StepNode, FW(<<"A">>)>>)
  /\ ~InSeq(Val(Val(loss_dag)[1]).edges, <<StepNode, FW(<<"A">>)>>)
  /\ InSeq(Val(Val(loss_dag)[1]).edges, <<IONode, FW(<<"A">>)>>)

\* ------------------------------------- claims on byteps_collect_computation
\* rst_traces holds exactly one event per node of nodes, and the event of the
\* i-th node has the begin record's ts, the difference of the pair's ts as
\* dur, and as inputs the sources of the node's incoming edges, each once
RoundTrip(nodes) ==
  /\ Len(rst_traces) = Len(nodes)
  /\ \A i \in 1..Len(nodes) :
       /\ Cardinality({j \in 1..Len(rst_traces) : rst_traces[j].name = nodes[i]}) = 1
       /\ \A j \in 1..Len(rst_traces) :
            rst_traces[j].name = nodes[i]
              => LET e == rst_traces[j]
                     ins == {ed[1] : ed \in {x \in EdgeSet(dag) : x[2] = nodes[i]}}
                 IN /\ e.ts = temp_json[2 * i - 1].ts
                    /\ e.dur = temp_json[2 * i].ts - temp_json[2 * i - 1].ts
                    /\ e.args.name = nodes[i]
                    /\ Len(e.args.inputs) = Cardinality(ins)
                    /\ {e.args.inputs[k] : k \in 1..Len(e.args.inputs)} = ins

\* C14 as stated: for a stream with one begin/end pair per node of the
\* dependency graph, all of one process id, byteps_collect_computation gives
\* exactly one annotated event per node of the graph, with dur the end ts
\* minus the begin ts and one input per incoming edge.
C14_OneEventPerGraphNode ==
  (pc = "io_wait" /\ temp_json = NodeStream(dag.nodes)) => RoundTrip(dag.nodes)

\* C14 amended: for a stream with one begin/end pair per operator node
\* (FW.<name>, BW.<name>) of the dependency graph, all of one process id,
\* byteps_collect_computation gives exactly one annotated event per operator
\* node, with dur the end ts minus the begin ts and one input per incoming
\* edge and no other; no event of the stream is given to another node.
C14_OneEventPerOperatorNode ==
  (pc = "io_wait" /\ temp_json = NodeStream(OperatorNodes(dag)))
    => RoundTrip(OperatorNodes(dag))

C14_Witness ==
  /\ pc = "io_wait" /\ temp_json = NodeStream(OperatorNodes(dag))
  /\ block = Some(DumpPlain) /\ loss = Some(<<Some(DumpLoss)>>)
  /\ Len(rst_traces) = 6 /\ Len(dag.nodes) > 6
  /\ \E j \in 1..Len(rst_traces) :
       /\ rst_traces[j].name = BW(<<"B">>)
       /\ rst_traces[j].args.inputs = <<OutputNode(0), BW(<<"L">>)>>
       /\ rst_traces[j].dur > 0

\* the begin records of temp.json an event of rst_traces can come from
BeginsOf(e) ==
  {b \in 1..Len(temp_json) :
     /\ temp_json[b].has_ts /\ temp_json[b].ph \in {"B", "b"}
     /\ temp_json[b].ts = e.ts /\ temp_json[b].pid = e.pid
     /\ _preprocess(temp_json[b].name) = e.name}

\* the end records of the process id of begin record b that follow it
EndsAfter(b) ==
  {j \in (b + 1)..Len(temp_json) :
     temp_json[j].ph = "E" /\ temp_json[j].pid = temp_json[b].pid}

Min(S) == CHOOSE x \in S : \A y \in S : x <= y
Max(S) == CHOOSE x \in S : \A y \in S : x >= y

InDegree(g, n) == Cardinality({e \in EdgeSet(g) : e[2] = n})

\* the gradient records of comm.json whose Comm node does not have exactly
\* one predecessor
BadCommEntries ==
  {i \in 1..Len(comm_json) :
     /\ ContainsSub(comm_json[i].args.name, GradientMarker)
     /\ InDegree(dag, CommNodeOf(comm_json[i])) # 1}

\* C16: when byteps_collect_comm meets a record of a tracked index whose node
\* Comm.<name> has no predecessor or more than one, it raises: no predecessor
\* is picked, the record is not appended to the merged events and no
\* TraceFile is written.
C16_BadPredecessorCountFails ==
  [][(pc = "comm_read" /\ BadCommEntries # {})
       => /\ pc' = "raised"
          /\ error' # None /\ Val(error').type = "AssertionError"
          /\ \A i \in BadCommEntries : \A j \in 1..Len(Val(time_dict')) :
                /\ Val(time_dict')[j].pid # CommNodeOf(comm_json[i])
                /\ Val(time_dict')[j].args.name # CommNodeOf(comm_json[i])
          /\ trace_file' = None
          /\ "bps_trace.json" \notin files']_vars

C16_Witness ==
  /\ pc = "raised" /\ error # None /\ Val(error).type = "AssertionError"
  /\ symbol = Some(DumpShared) /\ BadCommEntries # {}
  /\ InDegree(dag, Comm(<<"w0">>)) = 2
  /\ \E i \in BadCommEntries : CommNodeOf(comm_json[i]) = Comm(<<"w0">>)
  /\ time_dict = Some(io_json) /\ trace_file = None

\* ------------------------------------------------ claims on STEP synthesis
\* the paired and sorted events byteps_collect_computation walks over
SortedTraces == SortByTs(Pairing(temp_json, 1, << >>).val)

\* the position in the sorted events st of event e of rst_traces
TracePos(st, e) ==
  CHOOSE q \in 1..Len(st) :
    /\ st[q].ts = e.ts /\ st[q].pid = e.pid /\ _preprocess(st[q].name) = e.name

\* the events of st after position q, of the same process id, up to the next
\* one that is a node of the graph, which are operators and not ignored
GapOps(st, q) ==
  LET later == {r \in (q + 1)..Len(st) :
                  /\ st[r].pid = st[q].pid
                  /\ InSeq(dag.nodes, _preprocess(st[r].name))}
      stop == IF later = {} THEN Len(st) + 1 ELSE Min(later)
  IN {r \in (q + 1)..(stop - 1) :
        /\ st[r].pid = st[q].pid
        /\ st[r].cat = "operator"
        /\ st[r].name \notin {<<"DeleteVariable">>, <<"sum">>, <<"Cast">>, <<"Reshape">>}}

\* the positions of rst_traces that hold an event of the real last backward
\* node, each with the gap operators its scan finds
LastBwEvents ==
  LET st == SortedTraces
      name == real_last_bw_name(st, dag)
  IN {[at |-> i, gaps |-> GapOps(st, TracePos(st, rst_traces[i]))] :
        i \in {j \in 1..Len(rst_traces) : Some(rst_traces[j].name) = name}}

\* C17 as stated: each event of the real last backward node is directly
\* followed by a STEP event, also when the scan finds no qualifying gap
\* operator, and then the STEP event has duration zero.
C17_StepAfterEveryLastBw ==
  pc = "io_wait"
    => \A x \in LastBwEvents :
         /\ x.at < Len(rst_traces)
         /\ rst_traces[x.at + 1].name = StepNode
         /\ x.gaps = {} => rst_traces[x.at + 1].dur = 0

\* C17 amended: an event of the real last backward node is directly followed
\* by a STEP event exactly when the scan finds at least one qualifying gap
\* operator; the STEP event starts at the first gap operator and ends where
\* the last one ends; when the scan finds none, no STEP event is emitted; no
\* STEP event stands anywhere else.
C17_StepOnlyWithGap ==
  pc = "io_wait"
    => /\ \A x \in LastBwEvents :
            IF x.gaps # {}
            THEN LET first == SortedTraces[Min(x.gaps)]
                     last == SortedTraces[Max(x.gaps)]
                 IN /\ x.at < Len(rst_traces)
                    /\ rst_traces[x.at + 1].name = StepNode
                    /\ rst_traces[x.at + 1].ts = first.ts
                    /\ rst_traces[x.at + 1].dur = last.ts + last.dur - first.ts
                    /\ rst_traces[x.at + 1].pid = rst_traces[x.at].pid
            ELSE x.at = Len(rst_traces) \/ rst_traces[x.at + 1].name # StepNode
       /\ \A i \in 1..Len(rst_traces) :
            rst_traces[i].name = StepNode
              => \E x \in LastBwEvents : x.at = i - 1 /\ x.gaps # {}

C17_Witness ==
  /\ pc = "io_wait" /\ temp_json = StreamTwoSteps
  /\ Cardinality({i \in 1..Len(rst_traces) : rst_traces[i].name = StepNode}) = 2
  /\ \E i \in 1..Len(rst_traces) :
       /\ rst_traces[i].name = StepNode
       /\ rst_traces[i].ts = 20 /\ rst_traces[i].dur = 7

\* a step whose scan finds only an ignored operator: no STEP event
C17_WitnessNoGap ==
  /\ pc = "io_wait" /\ temp_json = StreamNoGap
  /\ \E x \in LastBwEvents : x.gaps = {}
  /\ \A i \in 1..Len(rst_traces) : rst_traces[i].name # StepNode

\* ------------------------------------------------ claims on the graph file
NodeSet(g) == {g.nodes[i] : i \in 1..Len(g.nodes)}

\* C18 as stated: the graph file holds the main graph only: with loss heads
\* given, no node and no edge that comes from a loss graph is in it.
C18_ExportedMainGraphOnly ==
  dag_gml # None
    => /\ NodeSet(Val(dag_gml)) \subseteq NodeSet(gen_dag(Val(MainDump), TRUE))
       /\ EdgeSet(Val(dag_gml)) \subseteq EdgeSet(gen_dag(Val(MainDump), TRUE))

\* C18 amended: the graph file holds self.dag as combine_loss_dag left it:
\* every node and edge of the main graph and, for each loss head k given, the
\* edges of its loss graph: an edge from I/O re-attached to the operator of
\* output k (and its backward edge), an edge to or from an OUTPUT node
\* re-attached to OUTPUT<k>, every other edge as it is.
C18_ExportedSplicedGraph ==
  dag_gml # None
    => /\ Val(dag_gml) = dag
       /\ NodeSet(gen_dag(Val(MainDump), TRUE)) \subseteq NodeSet(Val(dag_gml))
       /\ EdgeSet(gen_dag(Val(MainDump), TRUE)) \subseteq EdgeSet(Val(dag_gml))
       /\ block # None
            => \A i \in 1..Len(Val(loss)) :
                 Val(loss)[i] # None
                   => \A e \in EdgeSet(gen_dag(Val(Val(loss)[i]), FALSE)) :
                        LET out == DeclaredOutputs(Val(block))[i]
                            spliced ==
                              IF Contains(e[1], "I/O")
                              THEN {<<FW(out), e[2]>>, <<BW(Tail(e[2])), BW(out)>>}
                              ELSE IF Contains(e[1], "OUTPUT")
                              THEN {<<OutputNode(i - 1), e[2]>>}
                              ELSE IF Contains(e[2], "OUTPUT")
                              THEN {<<e[1], OutputNode(i - 1)>>}
                              ELSE {e}
                        IN spliced \subseteq EdgeSet(Val(dag_gml))

C18_Witness ==
  /\ pc = "done" /\ dag_gml # None
  /\ block = Some(DumpPlain) /\ loss = Some(<<Some(DumpLoss)>>)
  /\ InSeq(Val(dag_gml).nodes, FW(<<"L">>))
  /\ InSeq(Val(dag_gml).edges, <<BW(<<"L">>), BW(<<"B">>)>>)
  /\ ~InSeq(gen_dag(DumpPlain, TRUE).nodes, FW(<<"L">>))

\* ------------------------------------- claims on the thread and the tracker
\* C19: once the finished transition has started the get_traces thread
\* (tracker finished, profiler stopped and dumped), no later scheduler or
\* end4index call, interleaved in any way with the running thread, starts a
\* second thread or a second assembly, touches the thread's state, or makes
\* a second TraceFile or graph file.
C19_OneThreadOneTraceFile ==
  [][/\ threads' = 1 /\ profiler_dumps' = 1
     /\ profiler_state' = "stop" /\ _end_trace'
     /\ pc # "get_traces" => pc' # "get_traces"
     /\ trace_file # None => trace_file' = trace_file
     /\ dag_gml # None => dag_gml' = dag_gml
     /\ call' # call => UNCHANGED thread_vars]_vars

C19_Witness ==
  /\ pc = "done" /\ trace_file # None /\ threads = 1
  /\ call.op = "scheduler" /\ call.check_stop /\ call.index = MaxIndex
  /\ call.pre_end_trace /\ call.pre_marked /\ call.ret = "False"

\* lines 368-382: the inner scan entered after position index stops at a later
\* position, so the main loop resumes beyond the event it was at
ScanAdvances ==
  \A traces \in {SortByTs(Pairing(mxnet_traces, 1, << >>).val)} :
    \A index \in 1..Len(traces) :
      StepScan(traces, dag, index + 1, traces[index].pid, None, 0).index
        \in (index + 1)..(Len(traces) + 1)

\* C20: save_trace, once entered, ends in one of two ways: the TraceFile and
\* the graph file are written, or an error is raised and neither is complete;
\* each wait makes at most WAIT_TIME_OUT / WAIT_TIME + 1 polls and the inner
\* STEP scan always moves the main loop forward.
C20_SaveTraceTerminates ==
  /\ [](wait_log.polls * WAIT_TIME <= WAIT_TIME_OUT + WAIT_TIME)
  /\ []ScanAdvances
  /\ [](pc = "done" => (trace_file # None /\ dag_gml # None /\ error = None))
  /\ [](pc = "raised" => (error # None /\ trace_file = None /\ dag_gml = None))
  /\ (pc = "save_trace") ~> (pc \in {"done", "raised"})

C20_Witness ==
  /\ pc = "raised" /\ wait_log.outcome = "raised" /\ wait_log.name = "I/O"
  /\ wait_log.polls * WAIT_TIME = WAIT_TIME_OUT + WAIT_TIME
  /\ "io.json" \notin files /\ rst_traces # << >>

\* ------------------------------------------------- claims on the pairing
\* the stages of the thread up to the call of byteps_collect_computation
PreCollect == {"get_traces", "save_trace", "gen_dag", "combine_loss", "collect_computation"}

\* the begin records of the raw list that are not directly followed by the
\* end record of the same operation
UnmatchedBegins(events) ==
  {b \in 1..Len(events) :
     /\ events[b].has_ts /\ events[b].ph \in {"B", "b"}
     /\ \/ b = Len(events)
        \/ ~(/\ events[b + 1].ph = "E" /\ events[b + 1].name = events[b].name
              /\ events[b + 1].pid = events[b].pid)}

\* begin record b has no record after it, or one of another name, or one
\* without a timestamp
NoPartner(events, b) ==
  \/ b = Len(events)
  \/ events[b + 1].name # events[b].name
  \/ ~events[b + 1].has_ts

RECURSIVE ExaminedBegins(_, _)
\* the begin records the pairing loop examines from position index on: the
\* record after an accepted begin is taken as its partner and not examined,
\* and the loop ends at the first begin without a partner
ExaminedBegins(events, index) ==
  IF index > Len(events) THEN {}
  ELSE IF events[index].has_ts /\ events[index].ph \in {"B", "b"}
       THEN IF NoPartner(events, index) THEN {index}
            ELSE {index} \cup ExaminedBegins(events, index + 2)
       ELSE ExaminedBegins(events, index + 1)

FatalBegins(events) == {b \in ExaminedBegins(events, 1) : NoPartner(events, b)}

PairedEvents == Pairing(temp_json, 1, << >>).val

\* the positions of the paired events pe whose normalized name is a graph node
GraphMatching(pe) == {i \in 1..Len(pe) : InSeq(dag.nodes, _preprocess(pe[i].name))}

\* the graph-matching event that is first in timestamp order (of two with
\* one timestamp, the one that is first in the file)
FirstMatching(pe) ==
  CHOOSE i \in GraphMatching(pe) :
    \A j \in GraphMatching(pe) :
      pe[i].ts < pe[j].ts \/ (pe[i].ts = pe[j].ts /\ i <= j)

\* C22: every event byteps_collect_computation returns, the STEP events
\* included, has the process id of the graph-matching event that is first in
\* timestamp order; with no graph-matching event nothing is returned.
C22_OneCanonicalPid ==
  pc = "io_wait"
    => \A pe \in {PairedEvents} :
         IF GraphMatching(pe) = {} THEN rst_traces = << >>
         ELSE /\ rst_traces # << >>
              /\ \A i \in 1..Len(rst_traces) :
                    rst_traces[i].pid = pe[FirstMatching(pe)].pid

C22_Witness ==
  /\ pc = "io_wait" /\ temp_json = StreamLatePid
  /\ temp_json[1].pid = <<"p1">> /\ InSeq(dag.nodes, _preprocess(temp_json[1].name))
  /\ Len(rst_traces) = 6
  /\ \A i \in 1..Len(rst_traces) : rst_traces[i].pid = <<"p0">>
  /\ \E i \in 1..Len(rst_traces) :
       rst_traces[i].name = StepNode /\ rst_traces[i].ts = 10 /\ rst_traces[i].dur = 2

\* --------------------------------------- claims on the retained events
\* what identifies a retained event: its node, start, duration and process id
EventKey(name, e) == <<name, e.ts, e.dur, e.pid>>

\* the positions of rst_traces that hold no STEP event
Retained == {j \in 1..Len(rst_traces) : rst_traces[j].name # StepNode}

\* the paired events pe that are graph nodes and of the canonical process id
Canonical(pe) ==
  {i \in GraphMatching(pe) : pe[i].pid = pe[FirstMatching(pe)].pid}

\* C23: the events byteps_collect_computation returns, the STEP events left
\* out, are the paired events whose normalized name is a graph node and whose
\* process id is the canonical one, each as often as it was paired and no
\* other event; the returned events, STEP events included, are in ascending
\* timestamp order.
C23_RetainedExactlyOnce ==
  pc = "io_wait"
    => \A pe \in {PairedEvents} :
         /\ Cardinality(Retained) = Cardinality(Canonical(pe))
         /\ \A i \in Canonical(pe) :
              Cardinality({j \in Retained :
                             EventKey(rst_traces[j].name, rst_traces[j])
                               = EventKey(_preprocess(pe[i].name), pe[i])})
                = Cardinality({k \in Canonical(pe) :
                                 EventKey(_preprocess(pe[k].name), pe[k])
                                   = EventKey(_preprocess(pe[i].name), pe[i])})
         /\ \A j \in Retained :
              \E i \in Canonical(pe) :
                EventKey(rst_traces[j].name, rst_traces[j])
                  = EventKey(_preprocess(pe[i].name), pe[i])
         /\ \A i, j \in 1..Len(rst_traces) :
              i < j => rst_traces[i].ts <= rst_traces[j].ts

C23_Witness ==
  /\ pc = "io_wait" /\ temp_json = StreamTwoSteps
  /\ Cardinality(Retained) = 8 /\ Len(rst_traces) = 10
  /\ Cardinality(GraphMatching(PairedEvents)) = 9
  /\ Len(PairedEvents) = 14
  /\ \E j \in 2..Len(rst_traces) :
       /\ rst_traces[j - 1].name = StepNode
       /\ rst_traces[j].name = FW(<<"A">>) /\ rst_traces[j].ts = 12

\* ------------------------------------ claims on the last backward node
\* the normalized names of the sorted events that are graph nodes
GraphFiltered(st) ==
  LET hits == SelectSeq(st, LAMBDA e : InSeq(dag.nodes, _preprocess(e.name)))
  IN [i \in 1..Len(hits) |-> _preprocess(hits[i].name)]

\* the positions of gf that hold a forward node after a backward node that
\* itself comes after a forward node: where a next step is seen to start
NextStepStarts(gf) ==
  {k \in 1..Len(gf) :
     /\ gf[k][1] = "FW."
     /\ \E i, j \in 1..Len(gf) :
          i < j /\ j < k /\ gf[i][1] = "FW." /\ gf[j][1] = "BW."}

StepPositions == {i \in 1..Len(rst_traces) : rst_traces[i].name = StepNode}

\* C24: when the sorted, graph-filtered events never show forward, then
\* backward, then forward again, real_last_bw_name yields no node and no STEP
\* event is returned; otherwise it yields the backward node that stands
\* directly before the first forward node of the next step, and every STEP
\* event stands directly after an event of that node.
C24_LastBwOnlyAfterCycle ==
  pc = "io_wait"
    => \A st \in {SortedTraces} : \A gf \in {GraphFiltered(st)} :
         IF NextStepStarts(gf) = {}
         THEN /\ real_last_bw_name(st, dag) = None
              /\ StepPositions = {}
         ELSE \A last \in {gf[Min(NextStepStarts(gf)) - 1]} :
                /\ last[1] = "BW."
                /\ real_last_bw_name(st, dag) = Some(last)
                /\ \A i \in StepPositions :
                     i > 1 /\ rst_traces[i - 1].name = last

C24_Witness ==
  /\ pc = "io_wait" /\ temp_json = StreamLateStart
  /\ real_last_bw_name(SortedTraces, dag) = Some(BW(<<"B">>))
  /\ StepPositions = {6, 10}
  /\ rst_traces[5].name = BW(<<"B">>) /\ rst_traces[9].name = BW(<<"B">>)
  /\ rst_traces[11].name = BW(<<"A">>) /\ Len(rst_traces) = 11

\* a single step and an update operator after it: no STEP event
C24_WitnessNoCycle ==
  /\ pc = "io_wait" /\ temp_json = StreamOneStep
  /\ Len(rst_traces) = 4 /\ StepPositions = {}
  /\ rst_traces[4].name = BW(<<"A">>)

\* ---------------------------------------------------------------- C25
\* the observe call that has just returned was made with the flag set, for an
\* index not yet marked, on a tracker that was not finished
AdvancingCall(c) ==
  /\ c.op = "scheduler"
  /\ c.check_stop
  /\ ~c.pre_marked
  /\ ~c.pre_end_trace

\* C25: step_cnt changes only through scheduler: a call with check_stop set,
\* for an index not yet marked in idx_dict, while _end_trace is False, adds
\* exactly 1; every other scheduler call and every end4index call leaves it
\* unchanged; it never decreases, and it never advances once index 0, the
\* index the callers advance the step with, is marked.
C25_StepCounterFrame ==
  /\ [][step_cnt' = IF AdvancingCall(call') THEN step_cnt + 1 ELSE step_cnt]_vars
  /\ [][step_cnt' >= step_cnt]_vars
  /\ [][(0 \in DOMAIN idx_dict /\ idx_dict[0]) => step_cnt' = step_cnt]_vars

\* scheduler(0, True) has returned on a tracker that had counted steps and
\* had index 0 marked, and the counter is what it was before the call
C25_Witness ==
  /\ call.op = "scheduler" /\ call.index = 0 /\ call.check_stop
  /\ call.pre_marked /\ ~call.pre_end_trace
  /\ call.pre_step_cnt >= 1
  /\ step_cnt = call.pre_step_cnt

\* ---------------------------------------------------------------- C26
\* _end_trace is set and the get_traces thread has been started (lines 144-153)
AssemblyStarted == _end_trace /\ threads = 1

\* scheduler(i, ...) has just returned True to the caller
ToldToEmit(i) == call.op = "scheduler" /\ call.index = i /\ call.ret = "True"

Marked(i) == i \in DOMAIN idx_dict /\ idx_dict[i]

\* C26: in both callers every index for which scheduler returns True is
\* then marked in idx_dict by end4index, and, the training steps going on
\* calling scheduler for index 0 and every other index, a tracing Recorder
\* sets _end_trace and starts the get_traces thread.
C26_TrackerFinishes ==
  /\ \A i \in Index : (Tracing /\ ToldToEmit(i)) ~> Marked(i)
  /\ Tracing ~> AssemblyStarted

\* The same for the callers that do make the completion call: the optimizer,
\* and the trainer whose parameters all have a gradient.
C26_FinishesWhenCompleted ==
  (Tracing /\ (owner = "trainer" => \A i \in Index : grad_req[i] # "null"))
    ~> AssemblyStarted

\* the trainer was told to emit for a parameter whose grad_req is 'null'
C26_ToldNullParam ==
  /\ Tracing /\ owner = "trainer"
  /\ \E i \in Index : ToldToEmit(i) /\ grad_req[i] = "null" /\ ~Marked(i)

====
